---- MODULE Spec2Model ----
(***************************************************************************)
(* A model of pyDIWASP: the dirspec pipeline (input validation by          *)
(* check_data, transform-length resolution, cross-spectra), the post-      *)
(* processing of the estimated spectrum (clamp, interpspec, smoothspec),   *)
(* the EMLM / IMLM estimators and the wavenumber solver.                   *)
(*                                                                         *)
(* Python values are records [t |-> <type name>, v |-> <payload>]; a dict  *)
(* is [t |-> "dict", v |-> <function from its keys>], the list [] is       *)
(* [t |-> "list", v |-> << >>].                                            *)
(***************************************************************************)
EXTENDS Integers, Sequences, FiniteSets, TLC

VARIABLES
    pc,       \* dirspec: position in the function body
    ID,       \* dirspec: local ID (after check_data(ID, 1))
    SM,       \* dirspec: local SM (after check_data(SM, 2))
    EP,       \* dirspec: local EP (after check_data(EP, 3), then nfft resolved)
    EPin,     \* the EP structure as the caller passed it (history variable)
    Options,  \* dirspec: the Options dict after the pairs were applied
    nfft,     \* dirspec: local nfft
    result,   \* what the call produced: a return value or a raised exception
    work,     \* the processing stages dirspec has executed, in order
    warned,   \* dirspec: the warnings check_data(EP, 3) issued, in order
    stage,    \* post-processing: which of lines 145-154 have been applied
    S,        \* post-processing: the spectrum matrix, entries in units of Sunit
    Sunit,    \* post-processing: the positive rational <<p, q>> one unit of S stands for
    Sraised,  \* post-processing: the exception raised, "none" if none
    Sest,     \* post-processing: SM1['S'] as the estimation method returned it
    mlmPc,    \* EMLM / IMLM: position in the function body
    est,      \* EMLM / IMLM: the arguments method, xps, trm, Ss, miter
    ff,       \* EMLM / IMLM: the frequency index of the outer loop (from 1)
    it,       \* IMLM: the number of refinement iterations done at frequency ff
    Eo,       \* IMLM: the first estimate at frequency ff, times ddir
    E,        \* EMLM / IMLM: the current estimate at frequency ff, times ddir
    T,        \* IMLM: the last re-estimate at frequency ff, times ddir
    Srows,    \* EMLM / IMLM: the rows of S written so far, times ddir
    mlmRaised,\* EMLM / IMLM: the exception raised, "none" if none
    index,    \* EMEP / BDM: local index (M after the set-up loop)
    setup,    \* EMEP / BDM: per frequency, the columns of phi / H filled and
              \* the frequencies whose slices were read to fill them
    reads,    \* estimators: per row of S, the frequencies whose slices the row
              \* was computed from
    wnPc,     \* wavenumber: position in the function body
    sigma,    \* wavenumber: argument sigma, one float class per element
    h,        \* wavenumber: argument h, one float class per element
    a0,       \* wavenumber: local a0
    a1,       \* wavenumber: local a1
    d1,       \* wavenumber: local d1
    newton,   \* wavenumber: the number of passes of the while loop
    wnResult, \* wavenumber: what the call produced
    trmPc,    \* transfer parameters: position in the loop of dirspec.py 120-122
    datatypes,\* transfer parameters: ID['datatypes']
    sensor,   \* transfer parameters: the loop index m (from 1)
    trmCalls, \* transfer parameters: per sensor, the function called and the
              \* shape of what it returned
    trmRaised,\* transfer parameters: the exception raised, "none" if none
    fnPc,     \* writespec / infospec / interpspec / compangle: "called" or "returned"
    fnArgs,   \* the arguments of the call
    fnOut,    \* what the call produced (file content, return value, warnings)
    srPc,     \* EMEP / BDM model search at one frequency: position in the loops
    srArgs,   \* model search: the method, miter and M
    srN,      \* model search: local n
    srKeep,   \* model search: local keepgoing
    srRlx,    \* model search: local rlx, kept as its reciprocal (1, 2, 4, 8, 16)
    srCount,  \* model search: local count
    srX,      \* model search: the iterate (a1, b1 in EMEP, x in BDM)
    srStep,   \* model search: what the last pass of the inner loop computed
    srCrit,   \* model search: the last two entries of the list AIC (EMEP) or
              \* ABIC (BDM), the only ones the code reads
    srHeld,   \* model search: the list a1held / b1held (EMEP) or xold (BDM)
    srOut,    \* model search: best (EMEP) and the iterate the row is built from
    srRun,    \* history: passes of the inner loop since the order began or
              \* since the last halving of rlx
    srHalved, \* history: the last halving of rlx at this order
    srHist    \* history: how the order before the current one ended

dirspecVars == <<pc, ID, SM, EP, EPin, Options, nfft, result, work, warned>>
postVars    == <<stage, S, Sunit, Sraised, Sest>>

mlmVars     == <<mlmPc, est, ff, it, Eo, E, T, Srows, mlmRaised, index, setup, reads>>
wnVars      == <<wnPc, sigma, h, a0, a1, d1, newton, wnResult>>

trmVars     == <<trmPc, datatypes, sensor, trmCalls, trmRaised>>

fnVars      == <<fnPc, fnArgs, fnOut>>

srVars      == <<srPc, srArgs, srN, srKeep, srRlx, srCount, srX, srStep, srCrit, srHeld,
                 srOut, srRun, srHalved, srHist>>

vars == <<dirspecVars, postVars, mlmVars, wnVars, trmVars, fnVars, srVars>>

\* the variables a specification does not use stay at these values
DirspecIdle ==
    /\ pc = "idle"
    /\ ID = [t |-> "unset", v |-> 0] /\ SM = [t |-> "unset", v |-> 0]
    /\ EP = [t |-> "unset", v |-> 0] /\ EPin = [t |-> "unset", v |-> 0]
    /\ Options = << >> /\ nfft = 0 /\ result = [kind |-> "running"]
    /\ work = << >> /\ warned = << >>
PostIdle ==
    /\ stage = "idle" /\ S = << >> /\ Sunit = <<1, 1>> /\ Sraised = "none"
    /\ Sest = << >>

MlmIdle ==
    /\ mlmPc = "idle" /\ est = << >> /\ ff = 0 /\ it = 0
    /\ Eo = << >> /\ E = << >> /\ T = << >> /\ Srows = << >>
    /\ mlmRaised = "none"
    /\ index = 0 /\ setup = << >> /\ reads = << >>
WnIdle ==
    /\ wnPc = "idle" /\ sigma = << >> /\ h = << >> /\ a0 = << >>
    /\ a1 = << >> /\ d1 = << >> /\ newton = 0
    /\ wnResult = [kind |-> "running"]

TrmIdle ==
    /\ trmPc = "idle" /\ datatypes = << >> /\ sensor = 0
    /\ trmCalls = << >> /\ trmRaised = "none"
FnIdle ==
    /\ fnPc = "idle" /\ fnArgs = << >> /\ fnOut = << >>
SrIdle ==
    /\ srPc = "idle" /\ srArgs = << >> /\ srN = 0 /\ srKeep = FALSE /\ srRlx = 1
    /\ srCount = 0 /\ srX = << >> /\ srStep = << >> /\ srCrit = << >> /\ srHeld = << >>
    /\ srOut = << >> /\ srRun = 0 /\ srHalved = << >> /\ srHist = << >>

\* what each specification leaves alone
NotDirspec == <<postVars, mlmVars, wnVars, trmVars, fnVars, srVars>>
NotPost    == <<dirspecVars, mlmVars, wnVars, trmVars, fnVars, srVars>>
NotMlm     == <<dirspecVars, postVars, wnVars, trmVars, fnVars, srVars>>
NotWn      == <<dirspecVars, postVars, mlmVars, trmVars, fnVars, srVars>>
NotTrm     == <<dirspecVars, postVars, mlmVars, wnVars, fnVars, srVars>>
NotFn      == <<dirspecVars, postVars, mlmVars, wnVars, trmVars, srVars>>
NotSr      == <<dirspecVars, postVars, mlmVars, wnVars, trmVars, fnVars>>

----------------------------------------------------------------------------
(* Python values *)

PyInt(n)   == [t |-> "int",     v |-> n]
PyFloat(n) == [t |-> "float",   v |-> n]
PyStr(s)   == [t |-> "str",     v |-> s]
PyList(s)  == [t |-> "list",    v |-> s]
PyArray(shape) == [t |-> "ndarray", v |-> shape]
PyDict(f)  == [t |-> "dict",    v |-> f]
Absent     == [t |-> "absent",  v |-> 0]
Unset      == [t |-> "unset",   v |-> 0]
EmptyList  == PyList(<< >>)

\* dict built from a record of options, the Absent ones left out
DictFrom(f) == PyDict([k \in {kk \in DOMAIN f : f[kk] # Absent} |-> f[k]])
Has(d, k)   == k \in DOMAIN d.v
Get(d, k)   == d.v[k]
Put(d, k, x) == PyDict([kk \in (DOMAIN d.v) \cup {k} |-> IF kk = k THEN x ELSE d.v[kk]])
PyLen(x)    == IF x.t = "dict" THEN Cardinality(DOMAIN x.v) ELSE Len(x.v)
IsNumber(x) == x.t \in {"int", "float"}

\* str.upper() on the strings the model uses
Upper(s) ==
    CASE s = "off"  -> "OFF"
      [] s = "on"   -> "ON"
      [] s = "imlm" -> "IMLM"
      [] s = "emep" -> "EMEP"
      [] OTHER      -> s

\* what a call produces
Return(x) == [kind |-> "return", val |-> x]
Raise(e, info) == [kind |-> "raise", exc |-> e, info |-> info]
Running == [kind |-> "running"]

----------------------------------------------------------------------------
(* private/check_data.py *)

\* the defaults of check_data
DefaultXaxisdir == 90
DefaultDres     == 180
DefaultIter     == 100
DefaultMethod   == "IMLM"
MinDres         == 10
MinNfft         == 64

Methods == {"DFTM", "EMLM", "IMLM", "EMEP", "BDM"}

\* numpy: shape, ndim, size of an array or list
Shape(x)  == IF x.t = "list" THEN << Len(x.v) >> ELSE x.v
Ndim(x)   == Len(Shape(x))
RECURSIVE Prod(_)
Prod(s)   == IF s = << >> THEN 1 ELSE Head(s) * Prod(Tail(s))
Size(x)   == Prod(Shape(x))
SqueezeNdim(x) == Cardinality({i \in 1..Ndim(x) : Shape(x)[i] # 1})
MaxOf(s)  == CHOOSE m \in {s[i] : i \in 1..Len(s)} : \A i \in 1..Len(s) : s[i] <= m

Checked(d)  == [raised |-> "none", ret |-> d]
Raised(e)   == [raised |-> e, ret |-> EmptyList]

\* check_data(DDS, 1): the instrument data structure
CheckInstrument(DDS) ==
    LET hasLayout == Has(DDS, "layout")
        nr == IF hasLayout THEN Shape(Get(DDS, "layout"))[1] ELSE 3
        nc == IF hasLayout THEN Shape(Get(DDS, "layout"))[2] ELSE 1
        e1 == IF hasLayout /\ nr < 3 THEN "layout" ELSE ""
        badTypes == \/ ~Has(DDS, "datatypes")
                    \/ Get(DDS, "datatypes").t \notin {"list", "ndarray"}
                    \/ SqueezeNdim(Get(DDS, "datatypes")) # 1
                    \/ MaxOf(Shape(Get(DDS, "datatypes"))) # nc
        e2 == IF badTypes THEN "datatypes" ELSE e1
        e3 == IF ~Has(DDS, "depth") \/ ~IsNumber(Get(DDS, "depth")) THEN "depth" ELSE e2
        e4 == IF ~Has(DDS, "fs") \/ ~IsNumber(Get(DDS, "fs")) THEN "fs" ELSE e3
        badData == /\ Has(DDS, "data")
                   /\ \/ Ndim(Get(DDS, "data")) < 2
                      \/ Shape(Get(DDS, "data"))[2] # nc
        e5 == IF badData THEN "data" ELSE e4
        D1 == IF Has(DDS, "data") THEN DDS ELSE Put(DDS, "data", PyArray(<<1, nc>>))
    IN  IF hasLayout /\ nr = 2 THEN Raised("IndexError")
        ELSE IF e5 # "" THEN Checked(EmptyList)
        ELSE Checked(D1)

\* check_data(DDS, 2): the spectral matrix structure
CheckSpectralMatrix(DDS) ==
    LET okF == Has(DDS, "freqs") /\ SqueezeNdim(Get(DDS, "freqs")) = 1
        okD == Has(DDS, "dirs") /\ SqueezeNdim(Get(DDS, "dirs")) = 1
        nf  == Size(Get(DDS, "freqs"))
        nd  == Size(Get(DDS, "dirs"))
        e1  == IF okF THEN "" ELSE "freqs"
        e2  == IF okD THEN e1 ELSE "dirs"
        dS  == Get(DDS, "S")
        \* the or-chain of line 89, left to right; nf / nd are unbound locals
        \* when the freqs / dirs field was not accepted
        unbound == /\ Has(DDS, "S")
                   /\ \/ ~okF
                      \/ /\ Shape(dS)[1] = nf
                         /\ Ndim(dS) >= 2
                         /\ ~okD
        badS == /\ Has(DDS, "S")
                /\ \/ Shape(dS)[1] # nf
                   \/ Ndim(dS) < 2
                   \/ Shape(dS)[2] # nd
        e3  == IF badS THEN "S" ELSE e2
        D1  == IF Has(DDS, "S") /\ ~badS THEN Put(DDS, "S", EmptyList) ELSE DDS
        badX == Has(DDS, "xaxisdir") /\ ~IsNumber(Get(DDS, "xaxisdir"))
        e4  == IF badX THEN "xaxisdir" ELSE e3
        D2  == IF Has(D1, "xaxisdir") THEN D1 ELSE Put(D1, "xaxisdir", PyInt(DefaultXaxisdir))
        D3  == IF Has(D2, "dunit") THEN D2 ELSE Put(D2, "dunit", PyStr("cart"))
        D4  == IF Has(D3, "funit") THEN D3 ELSE Put(D3, "funit", PyStr("hz"))
    IN  IF unbound THEN Raised("UnboundLocalError")
        ELSE IF e4 # "" THEN Checked(EmptyList)
        ELSE Checked(D4)

\* lines 152-157: the 'method' field.  The test reads "not in": with the field
\* absent the lookup DDS['method'] raises KeyError, with the field present
\* the caller's value is overwritten by the default.
CheckMethod(DDS, error) ==
    IF ~Has(DDS, "method")
    THEN [raised |-> "KeyError", error |-> error, DDS |-> DDS]
    ELSE [raised |-> "none", error |-> error,
          DDS |-> Put(DDS, "method", PyStr(DefaultMethod))]

\* a variant of CheckDres that keeps a small dres
CheckDresNoMinimum(DDS) ==
    IF ~Has(DDS, "dres") THEN Put(DDS, "dres", PyInt(DefaultDres)) ELSE DDS

\* check_data.py lines 121-129: the field dres
CheckDres(DDS) ==
    IF ~Has(DDS, "dres") THEN Put(DDS, "dres", PyInt(DefaultDres))
    ELSE IF IsNumber(Get(DDS, "dres")) /\ Get(DDS, "dres").v < MinDres
         THEN Put(DDS, "dres", PyInt(MinDres))
    ELSE DDS

DresWarning == "dres is too small and has been set to 10"
NfftWarning == "nfft is too small and has been set to 64"

\* check_data.py lines 126 and 133: the warnings of check_data(DDS, 3)
EpWarnings(DDS) ==
    (IF Has(DDS, "dres") /\ IsNumber(Get(DDS, "dres")) /\ Get(DDS, "dres").v < MinDres
     THEN <<DresWarning>> ELSE << >>)
    \o (IF Has(DDS, "nfft") /\ IsNumber(Get(DDS, "nfft")) /\ Get(DDS, "nfft").v < MinNfft
        THEN <<NfftWarning>> ELSE << >>)

\* check_data(DDS, 3): the estimation parameters structure
CheckEstimationParameters(DDS) ==
    LET dres == Get(DDS, "dres")
        e1 == IF Has(DDS, "dres") /\ ~IsNumber(dres) THEN "dres" ELSE ""
        D1 == CheckDres(DDS)
        n  == Get(DDS, "nfft")
        e2 == IF Has(DDS, "nfft") /\ ~IsNumber(n) THEN "nfft" ELSE e1
        D2 == IF ~Has(DDS, "nfft") THEN Put(D1, "nfft", EmptyList)
              ELSE IF IsNumber(n) /\ n.v < MinNfft THEN Put(D1, "nfft", PyInt(MinNfft))
              ELSE D1
        e3 == IF Has(DDS, "iter") /\ ~IsNumber(Get(DDS, "iter")) THEN "iter" ELSE e2
        D3 == IF Has(DDS, "iter") THEN D2 ELSE Put(D2, "iter", PyInt(DefaultIter))
        sm == Get(DDS, "smooth")
        noUpper == Has(DDS, "smooth") /\ sm.t # "str"
        D4 == IF Has(DDS, "smooth") /\ Upper(sm.v) = "OFF" THEN D3
              ELSE Put(D3, "smooth", PyStr("ON"))
        m  == CheckMethod(D4, e3)
    IN  IF noUpper THEN Raised("AttributeError")
        ELSE IF m.raised # "none" THEN Raised(m.raised)
        ELSE IF m.error # "" THEN Checked(EmptyList)
        ELSE Checked(m.DDS)

check_data(DDS, type_) ==
    CASE type_ = 1 -> CheckInstrument(DDS)
      [] type_ = 2 -> CheckSpectralMatrix(DDS)
      [] type_ = 3 -> CheckEstimationParameters(DDS)
      [] OTHER     -> Checked(EmptyList)


----------------------------------------------------------------------------
(* The caller's inputs: every combination of the listed field values. *)

MaxSensors == 2

LayoutOpts ==
    {Absent} \cup {PyArray(<<nr, nc>>) : nr \in 1..3, nc \in 2..MaxSensors}
DatatypesOpts ==
    {Absent, PyStr("elev"), PyList(<<"elev">>)}
        \cup {PyList([i \in 1..nc |-> "elev"]) : nc \in 2..MaxSensors}
DataOpts ==
    {Absent, PyArray(<<1200>>)}
        \cup {PyArray(<<ndat, nc>>) : ndat \in {512, 600, 1200}, nc \in 2..(MaxSensors + 1)}

IDInputs ==
    {DictFrom(f) : f \in [layout    : LayoutOpts,
                          datatypes : DatatypesOpts,
                          depth     : {Absent, PyFloat(20), PyStr("20")},
                          fs        : {Absent, PyFloat(2), PyInt(4), PyStr("2")},
                          data      : DataOpts]}

SMInputs ==
    {DictFrom(f) : f \in [freqs    : {Absent, PyArray(<<10>>), PyArray(<<2, 5>>)},
                          dirs     : {Absent, PyArray(<<36>>)},
                          S        : {Absent, PyArray(<<10, 36>>), PyArray(<<10, 4>>)},
                          xaxisdir : {Absent, PyInt(90), PyStr("E")},
                          dunit    : {Absent, PyStr("naut")}]}

EPInputs ==
    {DictFrom(f) : f \in [dres   : {Absent, PyInt(5), PyInt(10), PyInt(36), PyStr("36")},
                          nfft   : {Absent, PyInt(32), PyInt(512), PyInt(1024), PyStr("512")},
                          iter   : {Absent, PyInt(50), PyStr("50")},
                          smooth : {Absent, PyStr("OFF"), PyStr("off"), PyStr("ON"), PyInt(0)},
                          method : {Absent} \cup {PyStr(m) : m \in Methods \cup {"INVALID"}}]}

NoneValue == [t |-> "NoneType", v |-> 0]
OptionsInputs ==
    {NoneValue,
     PyList(<<PyStr("MESSAGE")>>),
     PyList(<<PyStr("MESSAGE"), PyInt(0), PyStr("PLOTTYPE"), PyInt(0)>>)}

----------------------------------------------------------------------------
(* private/diwasp_csd.py and the call dirspec makes to it *)

\* def diwasp_csd(x, y, nfft, fs)
diwasp_csd_params == <<"x", "y", "nfft", "fs">>

\* diwasp_csd(data[:, m], data[:, n], nfft, ID['fs'], flag=2)
CsdCall == [positional |-> 4, keywords |-> {"flag"}]

\* Python's binding of a call's arguments to a signature without *args / **kwargs
CallAccepted(params, call) ==
    /\ call.positional <= Len(params)
    /\ call.keywords \subseteq {params[i] : i \in (call.positional + 1)..Len(params)}

----------------------------------------------------------------------------
(* dirspec.py *)

\* lines 1-22: the names eval() can resolve in dirspec's module
DirspecNamespace ==
    {"warnings", "np", "plt", "detrend", "interpspec", "infospec", "writespec",
     "plotspec", "velx", "vely", "pres", "elev", "vels", "accs", "accz",
     "wavenumber", "IMLM", "EMEP", "smoothspec", "diwasp_csd", "check_data",
     "dirspec"}

\* line 143: eval(EP['method'])
Eval(name) ==
    IF name \in DirspecNamespace
    THEN [raised |-> "none", callable |-> name]
    ELSE [raised |-> "NameError", callable |-> ""]

DefaultOptions ==
    [MESSAGE |-> PyInt(1), PLOTTYPE |-> PyInt(1), FILEOUT |-> PyStr("")]

\* a variant of Rejected that tests for None instead of the empty result
RejectedIfNone(x) == x.t = "NoneType"

\* len(X) == 0 after check_data: the structure was rejected
Rejected(x) == PyLen(x) = 0

\* lines 74-82: an odd number of option entries leaves the defaults
ApplyOptions(opts) ==
    IF opts.t = "NoneType" \/ Len(opts.v) = 0 \/ Len(opts.v) % 2 # 0
    THEN DefaultOptions
    ELSE LET n == Len(opts.v) \div 2
             last(field) == CHOOSE i \in 1..n :
                               /\ opts.v[2 * i - 1].v = field
                               /\ \A j \in (i + 1)..n : opts.v[2 * j - 1].v # field
             given == {opts.v[2 * i - 1].v : i \in 1..n}
         IN  [field \in (DOMAIN DefaultOptions) \cup given |->
                 IF field \in given THEN opts.v[2 * last(field)] ELSE DefaultOptions[field]]

\* round(log2(fs)) for a positive integer fs: log2(fs) is never half-way
RECURSIVE Pow2(_)
Pow2(k) == IF k = 0 THEN 1 ELSE 2 * Pow2(k - 1)
RoundLog2(fs) ==
    CHOOSE k \in 0..15 : Pow2(2 * k) < 2 * fs * fs /\ 2 * fs * fs < Pow2(2 * k + 2)

\* line 95: the transform length when the caller gave none
DefaultNfft(fs) == Pow2(8 + RoundLog2(fs))

\* line 94: 'nfft' not in EP or not EP['nfft']
NfftUnspecified(ep) ==
    \/ ~Has(ep, "nfft")
    \/ (Get(ep, "nfft").t = "list" /\ Len(Get(ep, "nfft").v) = 0)
    \/ (IsNumber(Get(ep, "nfft")) /\ Get(ep, "nfft").v = 0)

\* a variant of TooSmall that compares with the number of samples of all sensors
TooSmallBySize(n, data) == n > Size(data)

\* line 99: the record is shorter than the transform
TooSmall(n, data) == n > Shape(data)[1]

\* the stages of lines 102-144
CoreStages == {"csd", "wavenumber", "transfer", "estimate"}

Init ==
    /\ pc = "check_ID"
    /\ ID = Unset /\ SM = Unset /\ EP = Unset /\ EPin = Unset
    /\ Options = DefaultOptions
    /\ nfft = 0
    /\ result = Running
    /\ work = << >> /\ warned = << >>
    /\ PostIdle /\ MlmIdle /\ WnIdle /\ TrmIdle /\ FnIdle /\ SrIdle

\* lines 64-66
ValidateID ==
    /\ pc = "check_ID"
    /\ \E id \in IDInputs :
         LET r == check_data(id, 1) IN
         IF r.raised # "none"
         THEN /\ result' = Raise(r.raised, 0) /\ pc' = "done" /\ ID' = ID
         ELSE /\ ID' = r.ret
              /\ IF Rejected(r.ret)
                 THEN result' = Return(<<EmptyList, EmptyList>>) /\ pc' = "done"
                 ELSE result' = result /\ pc' = "check_SM"
    /\ UNCHANGED <<SM, EP, EPin, Options, nfft, work, warned>>
    /\ UNCHANGED NotDirspec

\* lines 67-69
ValidateSM ==
    /\ pc = "check_SM"
    /\ \E sm \in SMInputs :
         LET r == check_data(sm, 2) IN
         IF r.raised # "none"
         THEN /\ result' = Raise(r.raised, 0) /\ pc' = "done" /\ SM' = SM
         ELSE /\ SM' = r.ret
              /\ IF Rejected(r.ret)
                 THEN result' = Return(<<EmptyList, EmptyList>>) /\ pc' = "done"
                 ELSE result' = result /\ pc' = "check_EP"
    /\ UNCHANGED <<ID, EP, EPin, Options, nfft, work, warned>>
    /\ UNCHANGED NotDirspec

\* lines 70-72
ValidateEP ==
    /\ pc = "check_EP"
    /\ \E ep \in EPInputs :
         LET r == check_data(ep, 3) IN
         /\ EPin' = ep
         /\ warned' = EpWarnings(ep)
         /\ IF r.raised # "none"
            THEN /\ result' = Raise(r.raised, 0) /\ pc' = "done" /\ EP' = EP
            ELSE /\ EP' = r.ret
                 /\ IF Rejected(r.ret)
                    THEN result' = Return(<<EmptyList, EmptyList>>) /\ pc' = "done"
                    ELSE result' = result /\ pc' = "options"
    /\ UNCHANGED <<ID, SM, Options, nfft, work>>
    /\ UNCHANGED NotDirspec

\* lines 57-62 and 74-85
ParseOptions ==
    /\ pc = "options"
    /\ \E o \in OptionsInputs : Options' = ApplyOptions(o)
    /\ pc' = "detrend"
    /\ UNCHANGED <<ID, SM, EP, EPin, nfft, result, work, warned>>
    /\ UNCHANGED NotDirspec

\* lines 88-91: detrend works on a copy of ID['data']
Detrend ==
    /\ pc = "detrend"
    /\ work' = Append(work, "detrend")
    /\ pc' = "nfft"
    /\ UNCHANGED <<ID, SM, EP, EPin, Options, nfft, result, warned>>
    /\ UNCHANGED NotDirspec

\* lines 93-100
ResolveNfft ==
    /\ pc = "nfft"
    /\ LET n == IF NfftUnspecified(EP) THEN DefaultNfft(Get(ID, "fs").v)
                ELSE Get(EP, "nfft").v
       IN  /\ nfft' = n
           /\ EP' = IF NfftUnspecified(EP) THEN Put(EP, "nfft", PyInt(n)) ELSE EP
           /\ IF TooSmall(n, Get(ID, "data"))
              THEN /\ result' = Raise("Exception", Shape(Get(ID, "data"))[1])
                   /\ pc' = "done"
              ELSE /\ result' = result
                   /\ pc' = "csd"
    /\ UNCHANGED <<ID, SM, EPin, Options, work, warned>>
    /\ UNCHANGED NotDirspec

\* lines 102-110: szd * szd calls of diwasp_csd, the first of which decides
CrossSpectra ==
    /\ pc = "csd"
    /\ IF Shape(Get(ID, "data"))[2] > 0 /\ ~CallAccepted(diwasp_csd_params, CsdCall)
       THEN /\ result' = Raise("TypeError", 0)
            /\ pc' = "done"
            /\ work' = work
       ELSE /\ result' = result
            /\ pc' = "wavenumbers"
            /\ work' = Append(work, "csd")
    /\ UNCHANGED <<ID, SM, EP, EPin, Options, nfft, warned>>
    /\ UNCHANGED NotDirspec

Next ==
    \/ ValidateID
    \/ ValidateSM
    \/ ValidateEP
    \/ ParseOptions
    \/ Detrend
    \/ ResolveNfft
    \/ CrossSpectra

Spec == Init /\ [][Next]_vars


----------------------------------------------------------------------------
(* Claims about check_data and the dirspec pipeline, checked under Spec *)

IsDict(x) == x.t = "dict"
Validated == IsDict(ID) /\ IsDict(SM) /\ IsDict(EP)
ndat == Shape(Get(ID, "data"))[1]
Stages == {work[i] : i \in 1..Len(work)}

\* C1: check_data applied to an estimation-parameters structure with no
\* fields does not fail and returns a non-empty structure with dres = 180,
\* method = 'IMLM', iter = 100 and smooth = 'ON'.
C1_EmptyEPGetsDefaults ==
    (IsDict(EPin) /\ PyLen(EPin) = 0) =>
        /\ result.kind # "raise"
        /\ IsDict(EP)
        /\ PyLen(EP) > 0
        /\ Get(EP, "dres") = PyInt(180)
        /\ Get(EP, "method") = PyStr("IMLM")
        /\ Get(EP, "iter") = PyInt(100)
        /\ Get(EP, "smooth") = PyStr("ON")

\* C2: when check_data returns for an estimation-parameters structure whose
\* 'method' is a string that names none of the five methods, it returns [].
C2_InvalidMethodRejected ==
    ( /\ IsDict(EPin)
      /\ Has(EPin, "method")
      /\ Get(EPin, "method").t = "str"
      /\ Upper(Get(EPin, "method").v) \notin Methods
      /\ result.kind # "raise" ) =>
        EP = EmptyList

\* C3: once the estimation parameters were accepted, the EP structure that
\* dirspec hands back as EPout names the method the caller asked for.
C3_EchoedMethod ==
    ( /\ IsDict(EP)
      /\ Get(EPin, "method").v \in Methods ) =>
        Get(EP, "method") = Get(EPin, "method")

\* C4: the routine that the dispatch of line 143 resolves is the one the caller
\* named, for each of the five method names, and no other string resolves to
\* any routine.
C4_ClosedDispatch ==
    IsDict(EP) =>
        /\ Get(EPin, "method").v \in Methods
        /\ Eval(Get(EP, "method").v) =
              [raised |-> "none", callable |-> Get(EPin, "method").v]

\* the estimation parameters of the integration tests
TestEP ==
    DictFrom([dres |-> PyInt(36), nfft |-> PyInt(512), iter |-> PyInt(50),
              smooth |-> PyStr("OFF"), method |-> PyStr("IMLM")])

\* C5: with a valid two-sensor instrument structure, a valid spectral matrix
\* and the test's EP (nfft not above the record length) dirspec ends by
\* returning a non-empty SMout with 'freqs', 'dirs' and 'S' and a non-empty
\* EPout: no call it makes is refused.
C5_BasicRunCompletes ==
    ( /\ pc = "done"
      /\ Validated
      /\ EPin = TestEP
      /\ nfft <= ndat ) =>
        /\ result.kind = "return"
        /\ IsDict(result.val[1])
        /\ {"freqs", "dirs", "S"} \subseteq DOMAIN result.val[1].v
        /\ IsDict(result.val[2])

\* C6: a structure rejected by validation ends the call at once with the pair
\* ([], []), nothing raised and no processing stage executed; the structures
\* are checked in the order ID, SM, EP, each only if the one before passed.
C6_RejectedReturnsEmptyPair ==
    /\ (ID = EmptyList \/ SM = EmptyList \/ EP = EmptyList) =>
          /\ pc = "done"
          /\ result = Return(<<EmptyList, EmptyList>>)
          /\ work = << >>
    /\ SM # Unset => IsDict(ID)
    /\ EP # Unset => IsDict(SM)

C6_Witness ==
    /\ pc = "done"
    /\ IsDict(ID) /\ IsDict(SM) /\ EP = EmptyList
    /\ result = Return(<<EmptyList, EmptyList>>)

\* C7: when the resolved transform length exceeds the number of samples,
\* dirspec raises an exception carrying the record length, after all three
\* structures were validated and before any cross-spectrum, wavenumber,
\* transfer-function or estimation stage.
C7_InsufficientData ==
    /\ (IsDict(ID) /\ nfft > ndat) =>
          /\ pc = "done"
          /\ result = Raise("Exception", ndat)
          /\ Stages \cap CoreStages = {}
    /\ (result.kind = "raise" /\ result.exc = "Exception") =>
          /\ Validated
          /\ nfft > ndat

C7_Witness ==
    /\ pc = "done"
    /\ IsDict(EPin)
    /\ ~Has(EPin, "nfft")
    /\ result.kind = "raise" /\ result.exc = "Exception"
    /\ nfft > ndat

\* the warnings issued, as a set
Range(w) == {w[i] : i \in 1..Len(w)}

\* the direction grid of dirspec.py lines 113-114: linspace with num = dres
GridSize(ep) == Get(ep, "dres").v

\* C21: once the estimation parameters passed validation, dres is at least
\* 10: a numeric dres below 10 became 10 and a warning was issued, a missing
\* dres became 180, a dres of 10 or more is unchanged (and not warned
\* about); the direction grid has at least 10 directions.
C21_DresAtLeastTen ==
    IsDict(EP) =>
        /\ Get(EP, "dres").t = "int" /\ Get(EP, "dres").v >= 10
        /\ GridSize(EP) >= 10
        /\ ~Has(EPin, "dres") => Get(EP, "dres") = PyInt(180)
        /\ (Has(EPin, "dres") /\ Get(EPin, "dres").v < 10) =>
              (Get(EP, "dres") = PyInt(10) /\ DresWarning \in Range(warned))
        /\ (Has(EPin, "dres") /\ Get(EPin, "dres").v >= 10) =>
              (Get(EP, "dres") = Get(EPin, "dres") /\ DresWarning \notin Range(warned))
        /\ ~Has(EPin, "dres") => DresWarning \notin Range(warned)

C21_Witness ==
    /\ IsDict(EP) /\ IsDict(EPin)
    /\ Has(EPin, "dres") /\ Get(EPin, "dres") = PyInt(5)
    /\ Get(EP, "dres") = PyInt(10)
    /\ warned # << >>
    /\ pc = "done"


----------------------------------------------------------------------------
(* The post-processing of the estimated spectrum: dirspec.py lines 145-154, *)
(* interpspec.py, private/spectobasis.py, private/smoothspec.py.            *)
(*                                                                          *)
(* An entry of a spectrum is NaN or a complex number with integer parts,    *)
(* counted in units of Sunit = <<p, q>>, the positive rational p / q.       *)
(* pi is taken as 22 / 7.                                                   *)

MaxVal == 1
OutDim == 5

Cell(re, im) == [nan |-> FALSE, re |-> re, im |-> im]
NaN  == [nan |-> TRUE, re |-> 0, im |-> 0]
Zero == Cell(0, 0)

\* numpy orders complex numbers by real part, then imaginary part; every
\* comparison with NaN is False
Less0(c)  == ~c.nan /\ (c.re < 0 \/ (c.re = 0 /\ c.im < 0))
GreaterEq0(c) == ~c.nan /\ (c.re > 0 \/ (c.re = 0 /\ c.im >= 0))

CellScale(k, c) == IF c.nan THEN NaN ELSE Cell(k * c.re, k * c.im)
CellAdd(a, b)   == IF a.nan \/ b.nan THEN NaN ELSE Cell(a.re + b.re, a.im + b.im)
MatMap(Op(_), M) == [i \in 1..Len(M) |-> [j \in 1..Len(M[i]) |-> Op(M[i][j])]]

RatMul(a, b) == <<a[1] * b[1], a[2] * b[2]>>
RatDiv(a, b) == <<a[1] * b[2], a[2] * b[1]>>
TwoPi == <<44, 7>>
r2d   == <<11, 630>>

\* a variant of ClampNegNan that clears the negative entries only
ClampNegOnly(M) ==
    LET f(c) == IF Less0(c) THEN Zero ELSE c IN MatMap(f, M)

\* dirspec.py line 145: SM1['S'][isnan(SM1['S']) | (SM1['S'] < 0)] = 0
ClampNegNan(M) ==
    LET f(c) == IF c.nan \/ Less0(c) THEN Zero ELSE c IN MatMap(f, M)

\* interpspec.py line 39 and smoothspec.py line 20: X[np.isnan(X)] = 0
NanToZero(M) ==
    LET f(c) == IF c.nan THEN Zero ELSE c IN MatMap(f, M)

Lower(u) ==
    CASE u = "Hz" -> "hz" [] OTHER -> u
Prefix3(u) ==
    CASE u = "cart" -> "car" [] u = "naut" -> "nau" [] OTHER -> u

\* spectobasis: the factor Sfac for a matrix with the given units
Sfac(funit, dunit) ==
    LET f1 == IF Lower(funit) = "hz" THEN RatDiv(<<1, 1>>, TwoPi) ELSE <<1, 1>>
    IN  IF Prefix3(Lower(dunit)) \in {"car", "nau"} THEN RatDiv(f1, r2d) ELSE f1

\* scipy's griddata(..., method='linear'): a target point inside the convex
\* hull of the source points gets the barycentric combination (weights
\* w[1..3], of sum GridW) of the three source values at the corners of its
\* triangle; a point outside the hull gets NaN.  plan = [oi, oj, w] fixes the
\* triangle of each target point.
GridW == 4
SrcIndex(i, nin, nout) == ((i - 1) * nin) \div nout + 1
Griddata(M, plan, nfo, ndo) ==
    LET nfi == Len(M)
        ndi == Len(M[1])
        val(i, j) ==
            LET si == SrcIndex(i, nfi, nfo)
                sj == SrcIndex(j, ndi, ndo)
            IN  IF si + plan.oi > nfi \/ sj + plan.oj > ndi THEN NaN
                ELSE CellAdd(CellScale(plan.w[1], M[si][sj]),
                     CellAdd(CellScale(plan.w[2], M[si + plan.oi][sj]),
                             CellScale(plan.w[3], M[si][sj + plan.oj])))
    IN  [i \in 1..nfo |-> [j \in 1..ndo |-> val(i, j)]]

Plans ==
    {[oi |-> oi, oj |-> oj, w |-> w] :
        oi \in {0, 1}, oj \in {0, 1}, w \in {<<GridW, 0, 0>>, <<1, 1, GridW - 2>>}}

\* interpspec(SMin, SMout): SMin is SM1 (funit 'Hz', dunit 'rad'), SMout the
\* caller's matrix with units funit / dunit and nfo x ndo grid points
interpspec(M, unit, funit, dunit, nfo, ndo, plan) ==
    LET facin  == Sfac("Hz", "rad")
        facout == Sfac(funit, dunit)
        Stmp   == NanToZero(Griddata(M, plan, nfo, ndo))
    IN  [S    |-> Stmp,
         unit |-> RatDiv(RatMul(RatMul(unit, facin), <<1, GridW>>), facout)]

\* dirspec.py line 154: the kernel [[1, 0.5, 0.25], [1, 0.5, 0.25]], in quarters
SmoothKernel == << <<4, 2, 1>>, <<4, 2, 1>> >>

\* smoothspec: the slices of lines 22-27 have mismatched lengths when a
\* dimension is exactly 3
SmoothRaises(M) == Len(M) = 3 \/ Len(M[1]) = 3

smoothspec(M, unit, kernel) ==
    LET f1 == kernel[1][3]
        f2 == kernel[1][2]
        f3 == kernel[1][1]
        dd1 == kernel[2][3]
        dd2 == kernel[2][2]
        dd3 == kernel[2][1]
        tot == 2 * f1 + 2 * f2 + f3 + 2 * dd1 + 2 * dd2 + dd3
        nf == Len(M)
        nd == Len(M[1])
        Sin == NanToZero(M)
        sum(cs) == CellAdd(cs[1], CellAdd(cs[2], CellAdd(cs[3], CellAdd(cs[4],
                   CellAdd(cs[5], CellAdd(cs[6], CellAdd(cs[7], CellAdd(cs[8],
                   CellAdd(cs[9], cs[10])))))))))
        new(i, j) ==
            IF i \in 3..(nf - 2) /\ j \in 3..(nd - 2)
            THEN sum(<<CellScale(f1, Sin[i - 2][j]), CellScale(f2, Sin[i - 1][j]),
                       CellScale(f3, Sin[i][j]),     CellScale(f2, Sin[i + 1][j]),
                       CellScale(f1, Sin[i + 2][j]), CellScale(dd1, Sin[i][j - 2]),
                       CellScale(dd2, Sin[i][j - 1]), CellScale(dd3, Sin[i][j]),
                       CellScale(dd2, Sin[i][j + 1]), CellScale(dd1, Sin[i][j + 2])>>)
            ELSE CellScale(tot, Sin[i][j])
    IN  [S    |-> [i \in 1..nf |-> [j \in 1..nd |-> new(i, j)]],
         unit |-> RatMul(unit, <<1, tot>>)]

\* what an estimation method may hand back on the internal 2 x 2 grid
EstValues == {NaN} \cup {Cell(re, im) : re \in (-1)..MaxVal, im \in {-1, 0}}
EstOutputs == [1..2 -> [1..2 -> EstValues]]

PostInit ==
    /\ DirspecIdle /\ MlmIdle /\ WnIdle /\ TrmIdle /\ FnIdle /\ SrIdle
    /\ stage = "estimated"
    /\ Sest \in EstOutputs
    /\ S = Sest
    /\ Sunit = <<1, 1>>
    /\ Sraised = "none"

\* dirspec.py line 145
Clamp ==
    /\ stage = "estimated"
    /\ S' = ClampNegNan(S)
    /\ stage' = "clamped"
    /\ UNCHANGED <<Sunit, Sraised, Sest, NotPost>>

\* dirspec.py line 149, interpspec.py lines 27-48
Interpolate ==
    /\ stage = "clamped"
    /\ \E u \in {<<"hz", "cart">>, <<"rad/s", "rad">>},
          shape \in {<<OutDim, OutDim>>, <<3, OutDim>>},
          plan \in Plans :
         LET r == interpspec(S, Sunit, u[1], u[2], shape[1], shape[2], plan)
         IN  S' = r.S /\ Sunit' = r.unit
    /\ stage' = "interpolated"
    /\ UNCHANGED <<Sraised, Sest, NotPost>>

\* dirspec.py lines 152-154 with EP['smooth'] 'ON'
Smooth ==
    /\ stage = "interpolated"
    /\ IF SmoothRaises(S)
       THEN /\ Sraised' = "ValueError" /\ stage' = "raised"
            /\ S' = NanToZero(S) /\ Sunit' = Sunit
       ELSE LET r == smoothspec(S, Sunit, SmoothKernel)
            IN  /\ S' = r.S /\ Sunit' = r.unit
                /\ stage' = "returned" /\ Sraised' = Sraised
    /\ UNCHANGED <<Sest, NotPost>>

\* dirspec.py line 152 with EP['smooth'] 'OFF'
NoSmooth ==
    /\ stage = "interpolated"
    /\ stage' = "returned"
    /\ UNCHANGED <<S, Sunit, Sraised, Sest, NotPost>>

PostNext ==
    \/ Clamp
    \/ Interpolate
    \/ Smooth
    \/ NoSmooth

SpecPost == PostInit /\ [][PostNext]_vars

AllCells(M, P(_)) == \A i \in 1..Len(M) : \A j \in 1..Len(M[i]) : P(M[i][j])
SomeCell(M, P(_)) == \E i \in 1..Len(M) : \E j \in 1..Len(M[i]) : P(M[i][j])

----------------------------------------------------------------------------
(* The estimators EMLM and IMLM: private/EMLM.py, private/IMLM.py.          *)
(*                                                                          *)
(* Numbers are exact rationals [nan, n, d] (n / d in lowest terms, d > 0);  *)
(* a division by zero gives NaN, and NaN is absorbing.  The sensors are     *)
(* co-located (kx = 0, so expx = iexpx = 1) and xps, trm are real.  The     *)
(* estimates E, Eo, T are kept multiplied by ddir = 2 pi / ddirs, which     *)
(* makes every quantity of the loops rational.                              *)

MaxXps  == 1
MaxIter == 2

RECURSIVE GCD(_, _)
GCD(a, b) == IF b = 0 THEN a ELSE GCD(b, a % b)
Abs(x) == IF x < 0 THEN -x ELSE x

QNaN == [nan |-> TRUE, n |-> 0, d |-> 1]
Q(n, d) ==
    IF d = 0 THEN QNaN
    ELSE LET g  == GCD(Abs(n), Abs(d))
             sg == IF d < 0 THEN -1 ELSE 1
         IN  [nan |-> FALSE, n |-> (sg * n) \div g, d |-> (sg * d) \div g]
QInt(i) == Q(i, 1)
QAdd(x, y) == IF x.nan \/ y.nan THEN QNaN ELSE Q(x.n * y.d + y.n * x.d, x.d * y.d)
QSub(x, y) == IF x.nan \/ y.nan THEN QNaN ELSE Q(x.n * y.d - y.n * x.d, x.d * y.d)
QMul(x, y) == IF x.nan \/ y.nan THEN QNaN ELSE Q(x.n * y.n, x.d * y.d)
QDiv(x, y) == IF x.nan \/ y.nan THEN QNaN ELSE Q(x.n * y.d, x.d * y.n)

RECURSIVE QSumTo(_, _)
QSumTo(v, k) == IF k = 0 THEN QInt(0) ELSE QAdd(QSumTo(v, k - 1), v[k])
\* np.sum over a vector
QSum(v) == QSumTo(v, Len(v))

gamma == Q(1, 10)
alpha == Q(1, 10)

\* xps[:, :, f]
Slice(xps, f) == [m \in 1..Len(xps) |-> [n \in 1..Len(xps) |-> QInt(xps[m][n][f])]]

Det(A) ==
    IF Len(A) = 1 THEN A[1][1]
    ELSE QSub(QMul(A[1][1], A[2][2]), QMul(A[1][2], A[2][1]))

\* numpy.linalg.inv of a 1 x 1 or 2 x 2 matrix: LinAlgError('Singular
\* matrix') when the elimination meets a zero pivot
inv(A) ==
    IF ~Det(A).nan /\ Det(A).n = 0
    THEN [raised |-> "LinAlgError", val |-> << >>]
    ELSE [raised |-> "none",
          val |-> IF Len(A) = 1 THEN << <<QDiv(QInt(1), A[1][1])>> >>
                  ELSE << <<QDiv(A[2][2], Det(A)), QDiv(QSub(QInt(0), A[1][2]), Det(A))>>,
                          <<QDiv(QSub(QInt(0), A[2][1]), Det(A)), QDiv(A[1][1], Det(A))>> >>]

\* Htemp[:, m, n] = H * Hs * expx and iHtemp[:, m, n] = H * Hs * iexpx, at
\* frequency f, with expx = iexpx = 1
Htemp(trm, f) ==
    [d \in 1..Len(trm[1][f]) |-> [m \in 1..Len(trm) |-> [n \in 1..Len(trm) |->
        QInt(trm[n][f][d] * trm[m][f][d])]]]
iHtemp(trm, f) == Htemp(trm, f)

\* the double loop over m, n that accumulates Sftmp
Sftmp(invcps, Ht) ==
    LET szd == Len(invcps)
        cell(d, k) == QMul(invcps[((k - 1) \div szd) + 1][((k - 1) % szd) + 1],
                           Ht[d][((k - 1) \div szd) + 1][((k - 1) % szd) + 1])
    IN  [d \in 1..Len(Ht) |-> QSum([k \in 1..(szd * szd) |-> cell(d, k)])]

\* EMLM.py line 62, DFTM.py line 61, EMEP.py line 190, BDM.py line 213:
\* X -> X / (ddir * sum(X)), the result times ddir
Normalize(X) == [d \in 1..Len(X) |-> QDiv(X[d], QSum(X))]
Reciprocal(X) == [d \in 1..Len(X) |-> QDiv(QInt(1), X[d])]

\* a variant of Kappa without the reciprocal
KappaNoReciprocal(X) == QSum(X)

\* IMLM.py lines 45, 64 and 69: kappa = 1 / (ddir * np.sum(X)), times ddir
Kappa(X) == QDiv(QInt(1), QSum(X))

\* IMLM.py lines 46, 65 and 70: X * kappa
TimesKappa(X) == [d \in 1..Len(X) |-> QMul(X[d], Kappa(X))]

\* IMLM.py lines 51-54
ixps(iHt, Ev) ==
    LET szd == Len(iHt[1])
    IN  [m \in 1..szd |-> [n \in 1..szd |->
            QSum([d \in 1..Len(Ev) |-> QMul(iHt[d][m][n], Ev[d])])]]

\* IMLM.py lines 67-70
Relax(Eov, Ev, Tv, Told) ==
    LET ei == [d \in 1..Len(Ev) |->
                 QMul(gamma, QAdd(QSub(Eov[d], Tv[d]),
                                  QMul(alpha, QSub(Tv[d], Told[d]))))]
    IN  TimesKappa([d \in 1..Len(Ev) |-> QAdd(Ev[d], ei[d])])

\* a variant of Row that scales by the last sensor's auto-spectrum
RowLastSensor(Ss, f, Ev) == [d \in 1..Len(Ev) |-> QMul(Ss[Len(Ss)][f], Ev[d])]

\* S[ff, :] = Ss[0, ff] * E
Row(Ss, f, Ev) == [d \in 1..Len(Ev) |-> QMul(Ss[1][f], Ev[d])]

\* symmetric positive semi-definite 2 x 2 matrices <<a, b, c>> = [[a, b], [b, c]]
Sym2 ==
    {p \in (0..MaxXps) \X ((-1)..1) \X (0..MaxXps) : p[2] * p[2] <= p[1] * p[3]}
XpsInputs(szd) ==
    IF szd = 1
    THEN {<< <<x>> >> : x \in [1..2 -> 0..MaxXps]}
    ELSE {<< <<[f \in 1..2 |-> p[f][1]], [f \in 1..2 |-> p[f][2]]>>,
             <<[f \in 1..2 |-> p[f][2]], [f \in 1..2 |-> p[f][3]]>> >> :
          p \in [1..2 -> Sym2]}
\* sensor responses over two directions, the same at both frequencies
TrmInputs(szd) ==
    {[m \in 1..szd |-> [f \in 1..2 |-> t[m]]] : t \in [1..szd -> [1..2 -> {1, 2}]]}
\* dirspec.py lines 128-132
SsOf(xps, trm) ==
    [m \in 1..Len(xps) |-> [f \in 1..2 |->
        LET mx == IF trm[m][f][1] > trm[m][f][2] THEN trm[m][f][1] ELSE trm[m][f][2]
        IN  Q(xps[m][m][f], mx * mx)]]

ffreqs == Len(est.xps[1][1])

\* the five estimation methods; the set-up loop of EMEP and BDM comes first
EstimationMethods == {"DFTM", "EMLM", "IMLM", "EMEP", "BDM"}
\* miter: DFTM and EMLM do not use it; the iterations of EMEP and BDM that
\* use it are not modelled step by step
MiterInputs(method) == IF method = "IMLM" THEN 0..MaxIter ELSE {MaxIter}

MlmInit ==
    /\ DirspecIdle /\ PostIdle /\ WnIdle /\ TrmIdle /\ FnIdle /\ SrIdle
    /\ \E szd \in {1, 2} : \E xps \in XpsInputs(szd) : \E trm \in TrmInputs(szd) :
       \E method \in EstimationMethods : \E miter \in MiterInputs(method) :
          est = [method |-> method, xps |-> xps, trm |-> trm,
                 Ss |-> SsOf(xps, trm), miter |-> miter]
    /\ mlmPc = IF est.method \in {"EMEP", "BDM"} THEN "setup" ELSE "freq"
    /\ ff = 1 /\ it = 0
    /\ Eo = << >> /\ E = << >> /\ T = << >>
    /\ Srows = << >>
    /\ mlmRaised = "none"
    /\ index = 0 /\ setup = << >> /\ reads = << >>

\* DFTM.py lines 45-62: one pass of the loop over the frequencies
DftmFrequency ==
    /\ mlmPc = "freq" /\ est.method = "DFTM" /\ ff <= ffreqs
    /\ LET Ev == Normalize(Sftmp(Slice(est.xps, ff), Htemp(est.trm, ff)))
       IN  /\ E' = Ev
           /\ Srows' = Append(Srows, Row(est.Ss, ff, Ev))
    /\ reads' = Append(reads, {ff})
    /\ ff' = ff + 1
    /\ UNCHANGED <<mlmPc, mlmRaised, est, it, Eo, T, index, setup, NotMlm>>

\* EMLM.py lines 46-63: one pass of the loop over the frequencies
EmlmFrequency ==
    /\ mlmPc = "freq" /\ est.method = "EMLM" /\ ff <= ffreqs
    /\ LET r == inv(Slice(est.xps, ff)) IN
       IF r.raised # "none"
       THEN /\ mlmRaised' = r.raised /\ mlmPc' = "raised"
            /\ UNCHANGED <<ff, E, Srows, reads>>
       ELSE LET Ev == Normalize(Reciprocal(Sftmp(r.val, Htemp(est.trm, ff))))
            IN  /\ E' = Ev
                /\ Srows' = Append(Srows, Row(est.Ss, ff, Ev))
                /\ reads' = Append(reads, {ff})
                /\ ff' = ff + 1
                /\ UNCHANGED <<mlmPc, mlmRaised>>
    /\ UNCHANGED <<est, it, Eo, T, index, setup, NotMlm>>

\* IMLM.py lines 25-48: the first estimate at frequency ff
ImlmFirstEstimate ==
    /\ mlmPc = "freq" /\ est.method = "IMLM" /\ ff <= ffreqs
    /\ LET r == inv(Slice(est.xps, ff)) IN
       IF r.raised # "none"
       THEN /\ mlmRaised' = r.raised /\ mlmPc' = "raised"
            /\ UNCHANGED <<Eo, E, T>>
       ELSE LET Ev == TimesKappa(Reciprocal(Sftmp(r.val, Htemp(est.trm, ff))))
            IN  /\ Eo' = Ev /\ E' = Ev /\ T' = Ev
                /\ mlmPc' = "refine"
                /\ UNCHANGED mlmRaised
    /\ it' = 0
    /\ UNCHANGED <<est, ff, Srows, index, setup, reads, NotMlm>>

\* IMLM.py lines 50-70: one pass of the refinement loop
ImlmRefine ==
    /\ mlmPc = "refine" /\ it < est.miter
    /\ LET r == inv(ixps(iHtemp(est.trm, ff), E)) IN
       IF r.raised # "none"
       THEN /\ mlmRaised' = r.raised /\ mlmPc' = "raised"
            /\ UNCHANGED <<E, T, it>>
       ELSE LET Tv == TimesKappa(Reciprocal(Sftmp(r.val, Htemp(est.trm, ff))))
            IN  /\ T' = Tv
                /\ E' = Relax(Eo, E, Tv, T)
                /\ it' = it + 1
                /\ UNCHANGED <<mlmPc, mlmRaised>>
    /\ UNCHANGED <<est, ff, Eo, Srows, index, setup, reads, NotMlm>>

\* IMLM.py line 74
ImlmStoreRow ==
    /\ mlmPc = "refine" /\ it = est.miter
    /\ Srows' = Append(Srows, Row(est.Ss, ff, E))
    /\ reads' = Append(reads, {ff})
    /\ ff' = ff + 1
    /\ mlmPc' = "freq"
    /\ UNCHANGED <<est, it, Eo, E, T, mlmRaised, index, setup, NotMlm>>

\* EMEP.py lines 60 and 65, BDM.py lines 76 and 81, for the pair (m, n) at
\* frequency f: is Htemp[0] different from Htemp[1] (the pair gets a column
\* of phi / H), and which frequencies' slices were read to decide and fill
PairDiffers(trm, f, m, n) ==
    trm[m][f][1] * trm[n][f][1] # trm[m][f][2] * trm[n][f][2]
PairReads(trm, f, m, n) ==
    IF PairDiffers(trm, f, m, n) THEN {f, 1} ELSE {f}
Pairs(szd) == {p \in (1..szd) \X (1..szd) : p[1] <= p[2]}

\* EMEP.py lines 50-68, BDM.py lines 67-84: one pass of the set-up loop.
\* kx[m, n, 0, 0] + kx[m, n, 0, 1] is 0 for co-located sensors, so a pair
\* fills one column.
EbSetup ==
    /\ mlmPc = "setup" /\ ff <= ffreqs
    /\ LET ps == Pairs(Len(est.trm))
           n  == Cardinality({p \in ps : PairDiffers(est.trm, ff, p[1], p[2])})
           rd == UNION {PairReads(est.trm, ff, p[1], p[2]) : p \in ps}
       IN  /\ index' = n
           /\ setup' = Append(setup, [index |-> n, reads |-> rd])
    /\ ff' = IF ff = ffreqs THEN 1 ELSE ff + 1
    /\ mlmPc' = IF ff = ffreqs THEN "freq" ELSE "setup"
    /\ UNCHANGED <<est, it, Eo, E, T, Srows, mlmRaised, reads, NotMlm>>

\* the values exp(.) may give over the direction grid
GInputs == {<<1, 1>>, <<1, 2>>}

\* EMEP.py lines 80-191, BDM.py lines 96-214: one pass of the loop over the
\* frequencies.  The model selection and its iterations work on
\* H[:, :M, ff] and phi[:M, ff] with M = index as the set-up loop left it,
\* and end in G = exp(.), a positive vector; the row is Ss[0, ff] * G /
\* (sum(G) * ddir).
EbFrequency ==
    /\ mlmPc = "freq" /\ est.method \in {"EMEP", "BDM"} /\ ff <= ffreqs
    /\ \E G \in GInputs :
         LET SG == Normalize([d \in 1..Len(G) |-> QInt(G[d])])
         IN  /\ E' = SG
             /\ Srows' = Append(Srows, Row(est.Ss, ff, SG))
    /\ reads' = Append(reads, {ff} \cup setup[ff].reads \cup setup[ffreqs].reads)
    /\ ff' = ff + 1
    /\ UNCHANGED <<mlmPc, mlmRaised, est, it, Eo, T, index, setup, NotMlm>>

\* DFTM.py lines 64-66, EMLM.py lines 65-67, IMLM.py lines 78-80,
\* EMEP.py line 193, BDM.py lines 216-218
MlmReturn ==
    /\ mlmPc = "freq" /\ ff > ffreqs
    /\ mlmPc' = "returned"
    /\ UNCHANGED <<est, ff, it, Eo, E, T, Srows, mlmRaised, index, setup, reads, NotMlm>>

MlmNext ==
    \/ DftmFrequency
    \/ EbSetup
    \/ EbFrequency
    \/ EmlmFrequency
    \/ ImlmFirstEstimate
    \/ ImlmRefine
    \/ ImlmStoreRow
    \/ MlmReturn

SpecMLM == MlmInit /\ [][MlmNext]_vars

\* C9: a singular xps[:, :, f], or a singular effective matrix of the IMLM
\* refinement, never aborts EMLM / IMLM: no exception leaves the estimator
\* and the run ends with one row of S per frequency.
C9_SingularRecovered ==
    /\ mlmRaised = "none"
    /\ mlmPc \in {"setup", "freq", "refine", "returned"}
    /\ mlmPc = "returned" => Len(Srows) = ffreqs

RowDefined(row) == \A d \in 1..Len(row) : ~row[d].nan
Nonzero(x) == ~x.nan /\ x.n # 0

\* the directional sum before normalisation, for the methods that form it
\* from the inputs alone
Unnormalised(e, f) ==
    IF e.method = "DFTM"
    THEN Sftmp(Slice(e.xps, f), Htemp(e.trm, f))
    ELSE Reciprocal(Sftmp(inv(Slice(e.xps, f)).val, Htemp(e.trm, f)))

\* C11: every row the estimator has written satisfies
\* ddir * sum_d S[f, d] = Ss[0, f] when it is defined; a row of DFTM or EMLM
\* is defined whenever the un-normalised directional sum is not zero, and a
\* row of EMEP or BDM always.
C11_RowNormalised ==
    \A f \in 1..Len(Srows) :
        /\ RowDefined(Srows[f]) => QSum(Srows[f]) = est.Ss[1][f]
        /\ (est.method \in {"DFTM", "EMLM"} /\ Nonzero(QSum(Unnormalised(est, f))))
               => RowDefined(Srows[f])
        /\ est.method \in {"EMEP", "BDM"} => RowDefined(Srows[f])

C11_Witness ==
    /\ mlmPc = "returned" /\ est.method = "IMLM" /\ est.miter = MaxIter
    /\ Len(est.xps) = 2 /\ Len(Srows) = ffreqs
    /\ \A f \in 1..ffreqs : RowDefined(Srows[f]) /\ Nonzero(est.Ss[1][f])
    /\ est.Ss[1][1] # est.Ss[2][1]
    /\ Srows[1][1] # Srows[1][2]

\* EMLM.py lines 50-63 as a function of the inputs: row f of EMLM's result
EmlmRow(e, f) ==
    Row(e.Ss, f, Normalize(Reciprocal(Sftmp(inv(Slice(e.xps, f)).val, Htemp(e.trm, f)))))

C13_ExactlyMiterSteps ==
    est.method = "IMLM" =>
        /\ it <= est.miter
        /\ (mlmPc = "refine" /\ RowDefined(E)) => QSum(E) = QInt(1)
        /\ (mlmPc = "raised" /\ inv(Slice(est.xps, ff)).raised = "none")
               => it = est.miter

\* C14: for a single sensor, every row DFTM or EMLM writes has the same
\* value in every direction.
C14_SingleSensorUniform ==
    (Len(est.xps) = 1 /\ est.method \in {"DFTM", "EMLM"}) =>
        \A f \in 1..Len(Srows) : \A d \in 1..Len(Srows[f]) :
            Srows[f][d] = Srows[f][1]

\* C15: row f of every method is computed from the slices of frequency f
\* alone, and the rows are written one per frequency, each once.
C15_FrequencyIndependence ==
    /\ Len(reads) = Len(Srows)
    /\ \A f \in 1..Len(reads) : reads[f] \subseteq {f}

----------------------------------------------------------------------------
(* The wavenumber solver: private/wavenumber.py, called on numpy arrays.    *)
(*                                                                          *)
(* An element is known by its IEEE-754 class: "nan", "neg", "zero", "pos"   *)
(* or "inf" (plus infinity).  Where the class of a result depends on the    *)
(* magnitudes, the model takes every class the arithmetic can give.         *)

MaxNewton == 3

Finite == {"neg", "zero", "pos"}

\* x * x
Square(x) == IF x = "zero" THEN "zero" ELSE "pos"
\* x * y for finite x and y
Times(x, y) ==
    CASE x = "nan" \/ y = "nan" -> "nan"
      [] (x = "zero" /\ y = "inf") \/ (x = "inf" /\ y = "zero") -> "nan"
      [] x = "zero" \/ y = "zero" -> "zero"
      [] x = "inf" \/ y = "inf" -> IF "neg" \in {x, y} THEN "nan" ELSE "inf"
      [] x = y -> "pos"
      [] OTHER -> "neg"
\* x ** p for a positive fractional p: NaN for a negative base
FracPower(x) == IF x = "neg" THEN "nan" ELSE x
\* np.tanh(x) for x not negative
Tanh(x) == IF x = "inf" THEN "pos" ELSE x
\* 1 / x for x not negative: inf for zero, with a RuntimeWarning only
OneOver(x) ==
    CASE x = "zero" -> "inf" [] x = "inf" -> "zero" [] OTHER -> x
\* x / y for x in {"nan", "pos"}
Over(x, y) ==
    CASE x = "nan" \/ y = "nan" -> "nan"
      [] y = "zero" -> "inf"
      [] OTHER -> y

Map1(Op(_), v) == [i \in 1..Len(v) |-> Op(v[i])]
Map2(Op(_, _), v, w) == [i \in 1..Len(v) |-> Op(v[i], w[i])]

\* lines 19-21
FirstGuess(a) == Times(a, FracPower(OneOver(Tanh(FracPower(a)))))

WnInit ==
    /\ DirspecIdle /\ PostIdle /\ MlmIdle /\ TrmIdle /\ FnIdle /\ SrIdle
    /\ wnPc = "start"
    /\ \E n \in {1, 2} : sigma \in [1..n -> Finite] /\ h \in [1..n -> Finite]
    /\ Len(h) = Len(sigma)
    /\ a0 = << >> /\ a1 = << >> /\ d1 = << >>
    /\ newton = 0
    /\ wnResult = [kind |-> "running"]

\* lines 17-24
WnGuess ==
    /\ wnPc = "start"
    /\ a0' = Map2(Times, Map1(Square, sigma), h)
    /\ a1' = Map1(FirstGuess, a0')
    /\ d1' = [i \in 1..Len(h) |-> TRUE]
    /\ wnPc' = "loop"
    /\ UNCHANGED <<sigma, h, newton, wnResult, NotWn>>

\* lines 25-32: one pass of the while loop; abs(da1 / a1) > 1e-8 is False
\* for a NaN element and either value for a positive one, False in the
\* end (the Newton iteration converges)
WnNewton ==
    /\ wnPc = "loop"
    /\ \E i \in 1..Len(d1) : d1[i]
    /\ \E d \in [1..Len(d1) -> BOOLEAN] :
         /\ \A i \in 1..Len(d1) : a1[i] = "nan" => ~d[i]
         /\ newton = MaxNewton => \A i \in 1..Len(d1) : ~d[i]
         /\ d1' = d
    /\ newton' = newton + 1
    /\ UNCHANGED <<wnPc, sigma, h, a0, a1, wnResult, NotWn>>

\* lines 34-36
WnReturn ==
    /\ wnPc = "loop"
    /\ \A i \in 1..Len(d1) : ~d1[i]
    /\ wnResult' = [kind |-> "return", val |-> Map2(Over, a1, h)]
    /\ wnPc' = "done"
    /\ UNCHANGED <<sigma, h, a0, a1, d1, newton, NotWn>>

WnNext ==
    \/ WnGuess
    \/ WnNewton
    \/ WnReturn

SpecWn == WnInit /\ [][WnNext]_vars

\* C10: a call of wavenumber with some sigma = 0 or some h <= 0 ends in a
\* raised domain error, not in a returned value.
C10_DomainError ==
    (wnPc = "done" /\ \E i \in 1..Len(h) : sigma[i] = "zero" \/ h[i] \in {"neg", "zero"})
        => wnResult.kind = "raise"


----------------------------------------------------------------------------
(* The transfer parameters: dirspec.py lines 118-122, where each sensor's   *)
(* capability tag is resolved with eval in dirspec's namespace.             *)

\* the capability tags of the transfer-function vocabulary
Vocabulary == {"pres", "elev", "velx", "vely", "vels", "accs", "slpx", "slpy"}

\* the grid the transfer functions are evaluated on: nf frequencies (F) and
\* EP['dres'] directions (pidirs)
TrmGrid == [nf |-> 2, nd |-> 2]

\* every transfer function returns an array of len(ffreqs) x len(dirs)
TransferShape(grid) == <<grid.nf, grid.nd>>

\* the value a transfer function returns at a grid point where its real
\* factors are 1: real for pres, elev, velx, vely and accs (pres.py line 7,
\* velx.py line 8, vely.py line 8, accs.py line 31), -1j for vels (velz.py
\* line 32), 1j for the slopes (slpx.py line 26, slpy.py line 26)
Response(fn) ==
    IF fn = "vels" THEN Cell(0, -1)
    ELSE IF fn \in {"slpx", "slpy"} THEN Cell(0, 1)
    ELSE Cell(1, 0)

\* the array a transfer function returns
Transfer(fn, grid) == [i \in 1..grid.nf |-> [j \in 1..grid.nd |-> Response(fn)]]

\* trm = np.empty((szd, nf, len(pidirs))) (dirspec.py line 118) is an array
\* of float64: an assignment of complex values keeps their real parts
StoreFloat64(A) == [i \in 1..Len(A) |-> [j \in 1..Len(A[i]) |-> Cell(A[i][j].re, 0)]]

TrmInit ==
    /\ DirspecIdle /\ PostIdle /\ MlmIdle /\ WnIdle /\ FnIdle /\ SrIdle
    /\ trmPc = "loop"
    /\ \E szd \in 1..MaxSensors : datatypes \in [1..szd -> Vocabulary]
    /\ sensor = 1
    /\ trmCalls = << >>
    /\ trmRaised = "none"

\* lines 120-122: one pass of the loop over the sensors
TransferSensor ==
    /\ trmPc = "loop" /\ sensor <= Len(datatypes)
    /\ LET r == Eval(datatypes[sensor]) IN
       IF r.raised # "none"
       THEN /\ trmRaised' = r.raised /\ trmPc' = "raised"
            /\ UNCHANGED <<sensor, trmCalls>>
       ELSE /\ trmCalls' = Append(trmCalls, [tag |-> datatypes[sensor],
                                             fn |-> r.callable,
                                             shape |-> TransferShape(TrmGrid),
                                             returned |-> Transfer(r.callable, TrmGrid),
                                             stored |-> StoreFloat64(Transfer(r.callable, TrmGrid))])
            /\ sensor' = sensor + 1
            /\ UNCHANGED <<trmPc, trmRaised>>
    /\ UNCHANGED <<datatypes, NotTrm>>

\* the loop of line 120 is over
TransferDone ==
    /\ trmPc = "loop" /\ sensor > Len(datatypes)
    /\ trmPc' = "done"
    /\ UNCHANGED <<datatypes, sensor, trmCalls, trmRaised, NotTrm>>

TrmNext ==
    \/ TransferSensor
    \/ TransferDone

SpecTrm == TrmInit /\ [][TrmNext]_vars

\* C16: no tag of the vocabulary fails to resolve; each sensor's tag is
\* resolved once, in sensor order, to the function of that name, and the
\* function is evaluated over the whole frequency x direction grid.
C16_TagsResolve ==
    /\ trmRaised = "none"
    /\ Len(trmCalls) = sensor - 1
    /\ \A k \in 1..Len(trmCalls) :
          /\ trmCalls[k].tag = datatypes[k]
          /\ trmCalls[k].fn = datatypes[k]
          /\ trmCalls[k].shape = <<TrmGrid.nf, TrmGrid.nd>>
    /\ trmPc = "done" => Len(trmCalls) = Len(datatypes)


\* C29: trm[m, :, :] equals the array the transfer function of sensor m
\* returned, imaginary parts included; the stored response of vels and of
\* the slopes is not zero.
C29_TrmKeepsComplexResponse ==
    \A k \in 1..Len(trmCalls) :
        /\ trmCalls[k].stored = trmCalls[k].returned
        /\ trmCalls[k].fn \in {"vels", "slpx", "slpy"} =>
              \E i \in 1..TrmGrid.nf : \E j \in 1..TrmGrid.nd :
                  trmCalls[k].stored[i][j] # Zero


----------------------------------------------------------------------------
(* writespec: pydiwasp/writespec.py lines 109-125.                          *)

MaxNf == 2
MaxNd == 3

\* np.real
Real(c) == c.re

\* np.empty: the content is whatever the memory holds
Garbage == "uninitialised"
Empty(n) == [k \in 1..n |-> Garbage]

\* streamout[a:b] = vals, positions counted from 0
SetSlice(arr, a, b, vals) ==
    [k \in 1..Len(arr) |-> IF a < k /\ k <= b THEN vals[k - a] ELSE arr[k]]

\* a variant of Flatten in column-major order
FlattenF(A) ==
    [k \in 1..(Len(A) * Len(A[1])) |->
        A[((k - 1) % Len(A)) + 1][((k - 1) \div Len(A)) + 1]]

\* np.reshape(A, (nf * nd)) in numpy's default order: the last index
\* varies fastest
Flatten(A) ==
    [k \in 1..(Len(A) * Len(A[1])) |->
        A[((k - 1) \div Len(A[1])) + 1][((k - 1) % Len(A[1])) + 1]]

\* lines 109-123
Streamout(sm) ==
    LET nf == Len(sm.freqs)
        nd == Len(sm.dirs)
        s0 == Empty(nf + nd + 4 + nf * nd)
        s1 == SetSlice(s0, 0, 1, <<sm.xaxisdir>>)
        s2 == SetSlice(s1, 1, 2, <<nf>>)
        s3 == SetSlice(s2, 2, 3, <<nd>>)
        s4 == SetSlice(s3, 3, nf + 3, sm.freqs)
        s5 == SetSlice(s4, nf + 3, nf + nd + 3, sm.dirs)
        s6 == SetSlice(s5, nf + nd + 3, nf + nd + 4, <<999>>)
    IN  SetSlice(s6, nf + nd + 4, nf + nd + 4 + nf * nd,
                 Flatten([i \in 1..nf |-> [j \in 1..nd |-> Real(sm.S[i][j])]]))

\* spectral matrices: the axes are 11, 12, ... and 21, 22, ...; the entries
\* of S are 1 + 1j or 2
WritespecInputs ==
    UNION {{[xaxisdir |-> x,
             freqs |-> [i \in 1..nf |-> 10 + i],
             dirs  |-> [j \in 1..nd |-> 20 + j],
             S     |-> A] :
              x \in {0, 90}, A \in [1..nf -> [1..nd -> {Cell(1, 1), Cell(2, 0)}]]} :
           nf \in 1..MaxNf, nd \in 1..MaxNd}

WritespecInit ==
    /\ DirspecIdle /\ PostIdle /\ MlmIdle /\ WnIdle /\ TrmIdle /\ SrIdle
    /\ fnPc = "called"
    /\ fnArgs \in WritespecInputs
    /\ fnOut = << >>

\* lines 109-125: np.savetxt writes the elements of streamout one per line
Writespec ==
    /\ fnPc = "called"
    /\ fnOut' = Streamout(fnArgs)
    /\ fnPc' = "returned"
    /\ UNCHANGED <<fnArgs, NotFn>>

SpecWritespec == WritespecInit /\ [][Writespec]_vars

\* C17: the file holds nf + nd + 4 + nf * nd numbers, in the order
\* xaxisdir, nf, nd, the frequencies, the directions, 999, then real(S[i, j])
\* at position nf + nd + 4 + i * nd + j (all counted from 0).
C17_WritespecFormat ==
    fnPc = "returned" =>
        LET nf == Len(fnArgs.freqs)
            nd == Len(fnArgs.dirs)
        IN  /\ Len(fnOut) = nf + nd + 4 + nf * nd
            /\ fnOut[1] = fnArgs.xaxisdir /\ fnOut[2] = nf /\ fnOut[3] = nd
            /\ \A i \in 0..(nf - 1) : fnOut[3 + i + 1] = fnArgs.freqs[i + 1]
            /\ \A j \in 0..(nd - 1) : fnOut[nf + 3 + j + 1] = fnArgs.dirs[j + 1]
            /\ fnOut[nf + nd + 3 + 1] = 999
            /\ \A i \in 0..(nf - 1) : \A j \in 0..(nd - 1) :
                  fnOut[nf + nd + 4 + i * nd + j + 1] = fnArgs.S[i + 1][j + 1].re

C17_Witness ==
    /\ fnPc = "returned"
    /\ Len(fnArgs.freqs) = MaxNf /\ Len(fnArgs.dirs) = MaxNd
    /\ fnArgs.S[1][2] # fnArgs.S[2][1]
    /\ fnArgs.S[1][1].im # 0
    /\ Len(fnOut) = MaxNf + MaxNd + 4 + MaxNf * MaxNd


----------------------------------------------------------------------------
(* infospec and compangle: infospec.py lines 29-51 (the same code as        *)
(* pydiwasp/infospec.py lines 98-117 and 165).                              *)

MaxS == 3

\* np.argmax of a vector: the first position of the largest element
ArgMax(v) ==
    CHOOSE k \in 1..Len(v) :
        /\ \A l \in 1..Len(v) : v[l] <= v[k]
        /\ \A l \in 1..(k - 1) : v[l] < v[k]

RECURSIVE SumTo(_, _)
SumTo(v, n) == IF n = 0 THEN 0 ELSE SumTo(v, n - 1) + v[n]

\* np.sum(np.real(S), 1): over the directions of each frequency
SumOverDirs(A) == [i \in 1..Len(A) |-> SumTo([j \in 1..Len(A[i]) |-> Real(A[i][j])], Len(A[i]))]

\* np.real(np.sum(S, 0)): over the frequencies of each direction
SumOverFreqs(A) == [j \in 1..Len(A[1]) |-> SumTo([i \in 1..Len(A) |-> Real(A[i][j])], Len(A))]

\* infospec.py line 51, for one angle
compangle(d, xaxisdir) == (180 + xaxisdir - d) % 360

\* hsig.py lines 17-22: 4 * sqrt(m0), kept as its radicand m0
hsig(sm) ==
    [fourSqrt |-> SumTo(SumOverDirs(sm.S), Len(sm.S))
                    * (sm.freqs[2] - sm.freqs[1]) * (sm.dirs[2] - sm.dirs[1])]

\* infospec.py lines 29-48
infospec(sm) ==
    LET I1  == ArgMax(SumOverDirs(sm.S))
        I2  == ArgMax([j \in 1..Len(sm.S[I1]) |-> Real(sm.S[I1][j])])
        I3  == ArgMax(SumOverFreqs(sm.S))
        DTp == sm.dirs[I2]
        Dp  == sm.dirs[I3]
    IN  [H |-> hsig(sm), Tp |-> Q(1, sm.freqs[I1]), DTp |-> DTp, Dp |-> Dp,
         printed |-> <<compangle(DTp, sm.xaxisdir), compangle(Dp, sm.xaxisdir)>>]

\* spectra on a 2 x 2 grid with real entries 0 .. MaxS
InfospecInputs ==
    {[xaxisdir |-> 90, freqs |-> <<1, 2>>, dirs |-> <<21, 22>>, S |-> A] :
        A \in [1..2 -> [1..2 -> {Cell(v, 0) : v \in 0..MaxS}]]}

InfospecInit ==
    /\ DirspecIdle /\ PostIdle /\ MlmIdle /\ WnIdle /\ TrmIdle /\ SrIdle
    /\ fnPc = "called"
    /\ fnArgs \in InfospecInputs
    /\ fnOut = << >>

Infospec ==
    /\ fnPc = "called"
    /\ fnOut' = infospec(fnArgs)
    /\ fnPc' = "returned"
    /\ UNCHANGED <<fnArgs, NotFn>>

SpecInfospec == InfospecInit /\ [][Infospec]_vars

\* a position of the global maximum of real(S)
GlobalMax(A, i, j) ==
    \A k \in 1..Len(A) : \A l \in 1..Len(A[k]) : Real(A[k][l]) <= Real(A[i][j])

\* C18: the DTp returned by infospec is the direction of a position of the
\* global maximum of real(S) over all frequencies and directions.
C18_DTpIsGlobalMaximum ==
    fnPc = "returned" =>
        \E i \in 1..Len(fnArgs.S) : \E j \in 1..Len(fnArgs.S[i]) :
            GlobalMax(fnArgs.S, i, j) /\ fnOut.DTp = fnArgs.dirs[j]

\* compangle called on its own: angles on a 45 degree grid
CompangleInputs ==
    {[dirs |-> d, xaxisdir |-> x] :
        d \in {0, 45, 90, 135, 180, 225, 270, 315, 360, -45, -90, 405},
        x \in {0, 45, 90, 180, 270}}

CompangleInit ==
    /\ DirspecIdle /\ PostIdle /\ MlmIdle /\ WnIdle /\ TrmIdle /\ SrIdle
    /\ fnPc = "called"
    /\ fnArgs \in CompangleInputs
    /\ fnOut = << >>

CompangleCall ==
    /\ fnPc = "called"
    /\ fnOut' = compangle(fnArgs.dirs, fnArgs.xaxisdir)
    /\ fnPc' = "returned"
    /\ UNCHANGED <<fnArgs, NotFn>>

SpecCompangle == CompangleInit /\ [][CompangleCall]_vars

\* the documentation's examples for xaxisdir = 90
DocExample(d) ==
    CASE d = 0 -> 90 [] d = 45 -> 45 [] d = 90 -> 0 [] d = 180 -> 270 [] d = 270 -> 180

\* C20: compangle returns a bearing in [0, 360), and with xaxisdir = 90 it
\* maps the angles 0, 45, 90, 180, 270 to the bearings 90, 45, 0, 270, 180.
C20_CompangleExamples ==
    fnPc = "returned" =>
        /\ 0 <= fnOut /\ fnOut < 360
        /\ (fnArgs.xaxisdir = 90 /\ fnArgs.dirs \in {0, 45, 90, 180, 270}) =>
              fnOut = DocExample(fnArgs.dirs)


----------------------------------------------------------------------------
(* The closing check of interpspec: interpspec.py lines 42-46 (the same     *)
(* code as pydiwasp/interpspec.py lines 135-139).                           *)

MaxHs == 55

\* hsig's results: a height in hundredths, or NaN (the square root of a
\* negative energy)
HsValues == {[nan |-> FALSE, v |-> k] : k \in 0..MaxHs} \cup {[nan |-> TRUE, v |-> 0]}

\* (Hs2 - Hs1) / Hs1 > 0.02 in IEEE arithmetic: a comparison with NaN is
\* False, x / 0 is +inf for x > 0, -inf for x < 0 and NaN for x = 0
TooCoarse(Hs1, Hs2) ==
    IF Hs1.nan \/ Hs2.nan THEN FALSE
    ELSE IF Hs1.v = 0 THEN Hs2.v - Hs1.v > 0
    ELSE 50 * (Hs2.v - Hs1.v) > Hs1.v

CoarseWarning == "User defined grid may be too coarse"

HsCheckInit ==
    /\ DirspecIdle /\ PostIdle /\ MlmIdle /\ WnIdle /\ TrmIdle /\ SrIdle
    /\ fnPc = "called"
    /\ fnArgs \in [Hs1 : HsValues, Hs2 : HsValues]
    /\ fnOut = << >>

\* lines 43-46
HsCheck ==
    /\ fnPc = "called"
    /\ fnOut' = IF TooCoarse(fnArgs.Hs1, fnArgs.Hs2) THEN <<CoarseWarning>> ELSE << >>
    /\ fnPc' = "returned"
    /\ UNCHANGED <<fnArgs, NotFn>>

SpecHsCheck == HsCheckInit /\ [][HsCheck]_vars

\* C19: the warning is issued exactly when the interpolated height differs
\* from the input height by more than 2% of the input height, in either
\* direction.
C19_WarnsBothWays ==
    (fnPc = "returned" /\ ~fnArgs.Hs1.nan /\ ~fnArgs.Hs2.nan) =>
        (fnOut = <<CoarseWarning>>
            <=>  50 * Abs(fnArgs.Hs2.v - fnArgs.Hs1.v) > fnArgs.Hs1.v)


----------------------------------------------------------------------------
(* The model search of EMEP (EMEP.py lines 87-191) and BDM (BDM.py lines    *)
(* 103-214) at one frequency.  The linear algebra is not computed: each     *)
(* pass of an inner loop draws the class of what it computed (finite or     *)
(* not, small or large), and each order draws its information criterion.    *)
(* An iterate is known by the order it belongs to, whether it still has the *)
(* initial value of that order, and whether it is finite.                   *)

MaxMiter == 1
MaxM     == 3

\* BDM.py line 35
nmod == 6

\* EMEP.py line 95 (M // 2 + 1) and BDM.py line 113 (nmod)
Cap(method, M) == IF method = "EMEP" THEN (M \div 2) + 1 ELSE nmod

\* a variant of AboveMinimum that never lets the factor go
AboveMinimumOrAt(den) == den <= 16

\* rlx > 0.0625, on the reciprocal of rlx
AboveMinimum(den) == den < 16

\* the values of an information criterion: finite, NaN, -inf
Fin(v)   == [k |-> "fin", v |-> v]
NanScore == [k |-> "nan", v |-> 0]
NegInf   == [k |-> "inf", v |-> 0]
ScoreInputs == {Fin(1), Fin(2), NanScore}

\* a > b on floats: False when either is NaN; -inf is below every finite value
Greater(a, b) == a.k # "nan" /\ b.k # "nan" /\ a.v > b.v
IsNan(a)      == a.k = "nan"

\* a1, b1 = np.zeros(n) (EMEP.py line 99); x = log(1 / (2 pi)) (BDM.py line 115)
Initial(n) == [order |-> n, init |-> TRUE, finite |-> TRUE]
Moved(n, finite) == [order |-> n, init |-> FALSE, finite |-> finite]

\* what a pass of the inner loop left: the linear system (sys), the size of
\* the update (sol), whether the loop goes on, whether rlx was just halved,
\* and whether TA is set (BDM)
Pass(sys, sol, exit, halved, ta) ==
    [sys |-> sys, sol |-> sol, exit |-> exit, halved |-> halved, TA |-> ta]

\* one halving of rlx: what triggered it, and count and the iterate after it
Halving(why, count, x) == <<[why |-> why, count |-> count, x |-> x]>>

\* AIC.append(v), ABIC.append(v): the entries [-2] and [-1] after it
AppendScore(crit, v) == IF Len(crit) < 2 THEN Append(crit, v) ELSE <<crit[2], v>>

\* one order tried: how its inner loop ended, the iterate it ended with and
\* its criterion
Tried(n, pass, x, score) == [order |-> n, exit |-> pass.exit, x |-> x, score |-> score]

\* the number M of columns the set-up loop filled: EMEP sizes its search by
\* M // 2 + 1, BDM only divides by M
MInputs(method) == IF method = "EMEP" THEN 0..MaxM ELSE {0, MaxM}

SearchInit ==
    /\ DirspecIdle /\ PostIdle /\ MlmIdle /\ WnIdle /\ TrmIdle /\ FnIdle
    /\ srPc = "order"
    /\ \E method \in {"EMEP", "BDM"} : \E miter \in 0..MaxMiter : \E M \in MInputs(method) :
          srArgs = [method |-> method, miter |-> miter, M |-> M]
    /\ srN = 0 /\ srKeep = TRUE /\ srRlx = 1 /\ srCount = 0
    /\ srX = << >> /\ srStep = << >> /\ srCrit = << >> /\ srHeld = << >>
    /\ srOut = << >> /\ srRun = 0 /\ srHalved = << >> /\ srHist = << >>

\* EMEP.py lines 92-102 and 182-183, BDM.py lines 108-119 and 206-207: the
\* head of the loop over the orders
SearchOrder ==
    /\ srPc = "order" /\ srKeep
    /\ srN' = srN + 1
    /\ IF srN + 1 <= Cap(srArgs.method, srArgs.M)
       THEN /\ srX' = Initial(srN + 1)
            /\ srStep' = Pass("ok", "large", "loop", FALSE, FALSE)
            /\ srCount' = 0 /\ srRlx' = 1
            /\ srRun' = 0 /\ srHalved' = << >>
            /\ srHist' = IF srN = 0 THEN << >>
                         ELSE <<Tried(srN, srStep, srX, srCrit[Len(srCrit)])>>
            /\ srPc' = "solve"
            /\ UNCHANGED srKeep
       ELSE /\ srKeep' = FALSE
            /\ UNCHANGED <<srX, srStep, srCount, srRlx, srRun, srHalved, srHist, srPc>>
    /\ UNCHANGED <<srArgs, srCrit, srHeld, srOut, NotSr>>

\* np.max(np.abs(a2)) > 0.01 or np.max(np.abs(b2)) > 0.01 (EMEP.py line 104):
\* False for a small or zero update and for one holding NaN
EmepGoesOn(sol) == sol \in {"large", "diverging"}

\* EMEP.py lines 132-135: NaN in C or Z gives an all-zero update; otherwise
\* the least-squares solution is small, large, growing by more than 100
\* (infinite entries included), NaN, or zero (LinAlgError)
EmepPasses ==
    {<<"nan", "zero">>} \cup {<<"ok", sol>> : sol \in {"zero", "small", "large", "diverging", "nan"}}

\* EMEP.py lines 155-156: a1 = a1 + rlx * a2
EmepUpdate(x, sol) ==
    IF sol = "zero" THEN x ELSE Moved(x.order, x.finite /\ sol # "nan")

\* EMEP.py lines 104-156: one pass of the inner loop
EmepSolve ==
    /\ srPc = "solve" /\ srArgs.method = "EMEP"
    /\ \E p \in EmepPasses :
        LET sys   == p[1]
            sol   == p[2]
            count == srCount + 1
            why   == (IF sol = "diverging" THEN {"diverging"} ELSE {})
                        \cup (IF count > srArgs.miter THEN {"count"} ELSE {})
            exit  == IF EmepGoesOn(sol) THEN "loop" ELSE "converged"
        IN  /\ srRun' = (IF srStep.halved THEN 0 ELSE srRun) + 1
            /\ IF why # {}
               THEN IF AboveMinimum(srRlx)
                    THEN /\ srRlx' = 2 * srRlx
                         /\ srCount' = 0
                         /\ srX' = Initial(srN)
                         /\ srHalved' = Halving(why, 0, Initial(srN))
                         /\ srStep' = Pass(sys, sol, exit, TRUE, FALSE)
                         /\ srPc' = IF exit = "loop" THEN "solve" ELSE "score"
                         /\ UNCHANGED srKeep
                    ELSE /\ srKeep' = FALSE
                         /\ srCount' = count
                         /\ srStep' = Pass(sys, sol, "bailed", FALSE, FALSE)
                         /\ srPc' = "score"
                         /\ UNCHANGED <<srRlx, srX, srHalved>>
               ELSE /\ srX' = EmepUpdate(srX, sol)
                    /\ srCount' = count
                    /\ srStep' = Pass(sys, sol, exit, FALSE, FALSE)
                    /\ srPc' = IF exit = "loop" THEN "solve" ELSE "score"
                    /\ UNCHANGED <<srRlx, srKeep, srHalved>>
    /\ UNCHANGED <<srArgs, srN, srCrit, srHeld, srOut, srHist, NotSr>>

\* EMEP.py lines 158-159: the variance of the residual is NaN when the
\* system or the update holds NaN or when M = 0, and 0 when M = 1
AicInputs(pass, M) ==
    IF pass.sys = "nan" \/ pass.sol = "nan" \/ M = 0 THEN {NanScore}
    ELSE IF M = 1 THEN {NegInf}
    ELSE ScoreInputs \cup {NegInf}

\* EMEP.py lines 158-180: the criterion of order n and the choice it leads to
EmepScore ==
    /\ srPc = "score" /\ srArgs.method = "EMEP"
    /\ \E aic \in AicInputs(srStep, srArgs.M) :
        LET keepgoing == srKeep /\ ~(srN > 1 /\ (Greater(aic, srCrit[Len(srCrit)]) \/ IsNan(aic)))
            a1held    == Append(srHeld, srX)
        IN  /\ srCrit' = AppendScore(srCrit, aic)
            /\ srKeep' = keepgoing
            /\ srHeld' = a1held
            /\ IF keepgoing
               THEN /\ srOut' = [best |-> srN]
                    /\ UNCHANGED srX
               ELSE IF srN > 1
                    THEN /\ srX' = a1held[srN - 1]
                         /\ srOut' = [best |-> srN - 1]
                    ELSE /\ srX' = Initial(1)
                         /\ srOut' = [best |-> srN]
    /\ srPc' = "order"
    /\ UNCHANGED <<srArgs, srN, srRlx, srCount, srStep, srRun, srHalved, srHist, NotSr>>


\* BDM.py lines 135-166: Z finite or not; the solution x1 finite or not (then
\* replaced by the initial value); stddiff small, large or NaN; the new x
\* finite or not
BdmPasses ==
    {[Z |-> FALSE, x1 |-> TRUE, std |-> "large", x |-> TRUE]}
        \cup [Z : {TRUE}, x1 : BOOLEAN, std : {"small", "large", "nan"}, x : BOOLEAN]

\* BDM.py lines 163-166: x = (1 - rlx) * x + rlx * x1, x1 being the initial
\* value when the solution was not finite
BdmUpdate(x, p) ==
    IF ~p.x1 /\ x.init THEN x ELSE Moved(x.order, p.x)

\* the passes a given iterate allows: std(x - x1) is 0 when both are the
\* initial value
BdmAllowed(x, p) ==
    p.Z => ((~p.x1 /\ x.init) => (p.std = "small" /\ p.x))

\* BDM.py lines 121-181: one pass of the inner loop
BdmSolve ==
    /\ srPc = "solve" /\ srArgs.method = "BDM"
    /\ \E p \in BdmPasses :
        /\ BdmAllowed(srX, p)
        /\ srRun' = (IF srStep.halved THEN 0 ELSE srRun) + 1
        /\ IF ~p.Z
           THEN IF AboveMinimum(srRlx)
                THEN /\ srRlx' = 2 * srRlx
                     /\ srX' = Initial(srN)
                     /\ srCount' = 0
                     /\ srHalved' = Halving({"nonfinite"}, 0, Initial(srN))
                     /\ srStep' = Pass("nonfinite", "large", "loop", TRUE, srStep.TA)
                     /\ srPc' = "solve"
                     /\ UNCHANGED srKeep
                ELSE /\ srKeep' = IF srN > 1 THEN FALSE ELSE srKeep
                     /\ srCount' = srCount + 1
                     /\ srStep' = Pass("nonfinite", "large", "bailed", FALSE, srStep.TA)
                     /\ srPc' = "score"
                     /\ UNCHANGED <<srRlx, srX, srHalved>>
           ELSE LET count == srCount + 1
                    x     == BdmUpdate(srX, p)
                    sys   == IF p.x1 THEN "ok" ELSE "nonfinite"
                    why   == (IF count > srArgs.miter THEN {"count"} ELSE {})
                                \cup (IF ~x.finite THEN {"nonfinite"} ELSE {})
                    exit  == IF p.std = "large" THEN "loop" ELSE "converged"
                IN  IF why # {}
                    THEN IF AboveMinimum(srRlx)
                         THEN /\ srRlx' = 2 * srRlx
                              /\ srX' = IF ~x.finite THEN Initial(srN) ELSE x
                              /\ srCount' = 0
                              /\ srHalved' = Halving(why, 0, IF ~x.finite THEN Initial(srN) ELSE x)
                              /\ srStep' = Pass(sys, p.std, exit, TRUE, TRUE)
                              /\ srPc' = IF exit = "loop" THEN "solve" ELSE "score"
                              /\ UNCHANGED srKeep
                         ELSE /\ srKeep' = IF srN > 1 THEN FALSE ELSE srKeep
                              /\ srX' = x
                              /\ srCount' = count
                              /\ srStep' = Pass(sys, p.std, "bailed", FALSE, TRUE)
                              /\ srPc' = "score"
                              /\ UNCHANGED <<srRlx, srHalved>>
                    ELSE /\ srX' = x
                         /\ srCount' = count
                         /\ srStep' = Pass(sys, p.std, exit, FALSE, TRUE)
                         /\ srPc' = IF exit = "loop" THEN "solve" ELSE "score"
                         /\ UNCHANGED <<srRlx, srKeep, srHalved>>
    /\ UNCHANGED <<srArgs, srN, srCrit, srHeld, srOut, srHist, NotSr>>

\* BDM.py lines 185-187: sig2 is a division by M, NaN or infinite when
\* M = 0, when Z was not finite or when x is not finite
AbicInputs(pass, x, M) ==
    IF M = 0 \/ pass.sys = "nonfinite" \/ ~x.finite THEN {NanScore} ELSE ScoreInputs

\* a variant of Previous that keeps the solution of the model that stopped
\* the search
PreviousForgotten(xold, x) == x

\* BDM.py lines 197-198 and 204-205: if xold is not None: x = xold
Previous(xold, x) == IF xold # << >> THEN xold[1] ELSE x

\* BDM.py lines 183-205: the criterion of model n and the choice it leads to
BdmScore ==
    /\ srPc = "score" /\ srArgs.method = "BDM"
    /\ IF srStep.TA
       THEN \E abic \in AbicInputs(srStep, srX, srArgs.M) :
              LET worse     == srN > 1 /\ Greater(abic, srCrit[Len(srCrit)])
                  keepgoing == srKeep /\ ~worse
              IN  /\ srCrit' = AppendScore(srCrit, abic)
                  /\ srKeep' = keepgoing
                  /\ srN' = IF worse THEN srN - 1 ELSE srN
                  /\ IF keepgoing
                     THEN srHeld' = <<srX>> /\ srX' = srX
                     ELSE srHeld' = srHeld /\ srX' = Previous(srHeld, srX)
       ELSE /\ srKeep' = FALSE
            /\ srN' = IF srN > 1 THEN srN - 1 ELSE srN
            /\ srX' = IF srN > 1 THEN Previous(srHeld, srX) ELSE srX
            /\ UNCHANGED <<srCrit, srHeld>>
    /\ srPc' = "order"
    /\ UNCHANGED <<srArgs, srRlx, srCount, srStep, srOut, srRun, srHalved, srHist, NotSr>>

\* EMEP.py lines 185-191 and BDM.py lines 209-214: the row is built from the
\* iterate the search ended with
SearchReturn ==
    /\ srPc = "order" /\ ~srKeep
    /\ srOut' = [best |-> IF srArgs.method = "EMEP" THEN srOut.best ELSE srN, x |-> srX]
    /\ srPc' = "returned"
    /\ UNCHANGED <<srArgs, srN, srKeep, srRlx, srCount, srX, srStep, srCrit, srHeld,
                   srRun, srHalved, srHist, NotSr>>

SearchNext ==
    \/ SearchOrder
    \/ EmepSolve
    \/ EmepScore
    \/ BdmSolve
    \/ BdmScore
    \/ SearchReturn

SpecSearch == SearchInit /\ [][SearchNext]_vars

\* the interpreter runs the function to its end
SpecSearchLive == SpecSearch /\ WF_vars(SearchNext)


\* the number of times rlx was halved at this order
Halvings ==
    CASE srRlx = 1 -> 0 [] srRlx = 2 -> 1 [] srRlx = 4 -> 2 [] srRlx = 8 -> 3
      [] srRlx = 16 -> 4 [] OTHER -> 5

\* C22: the model search of EMEP and BDM ends with a returned row: never
\* more than miter + 1 passes of the inner loop between two halvings, rlx
\* halved at most 4 times and never below 0.0625, never more than
\* M // 2 + 1 (EMEP) or 6 (BDM) orders tried; a fully relaxed solve is
\* followed by the return.
C22_SearchTerminates ==
    /\ [](srRun <= srArgs.miter + 1)
    /\ [](Halvings <= 4)
    /\ []((srPc = "solve" \/ srPc = "score") =>
            srN <= (IF srArgs.method = "EMEP" THEN (srArgs.M \div 2) + 1 ELSE 6))
    /\ [](srPc \in {"order", "solve", "score", "returned"})
    /\ <>(srPc = "returned")
    /\ []((srPc = "score" /\ srStep.exit = "bailed") => <>(srPc = "returned"))

C22_Witness ==
    /\ srPc = "returned"
    /\ srArgs.miter = MaxMiter
    /\ srRlx = 16 /\ srStep.exit = "bailed"
    /\ srRun = srArgs.miter + 1


\* C23: every halving of rlx, whatever triggered it, leaves the step counter
\* at zero and the iterate at its initial value (all-zero coefficients in
\* EMEP, the uniform log-spectrum in BDM).
C23_HalvingRestarts ==
    srHalved # << >> =>
        /\ srHalved[1].count = 0
        /\ srHalved[1].x.init
        /\ srStep.halved => (srCount = 0 /\ srX.init)


\* C24: EMEP tries the orders 1, 2, ... up to M // 2 + 1; the search stops at
\* the first order n > 1 whose criterion is larger than that of order n - 1
\* or is not finite, or whose solve is fully relaxed, and the output then
\* uses the coefficients of order n - 1; the coefficients of the cap order
\* if no order stops the search; the all-zero coefficients if order 1 fails.
C24_EmepOrderSearch ==
    srArgs.method = "EMEP" =>
        LET top    == (srArgs.M \div 2) + 1
            scored == srPc \in {"order", "returned"} /\ srN >= 1 /\ srN <= top
        IN  /\ srPc \in {"solve", "score"} =>
                  (srN <= top /\ (srN > 1 => srHist[1].order = srN - 1))
            /\ (scored /\ srN > 1) =>
                  (~srKeep <=> \/ Greater(srCrit[2], srCrit[1])
                               \/ srCrit[2].k # "fin"
                               \/ srStep.exit = "bailed")
            /\ (scored /\ srN = 1) => (~srKeep <=> srStep.exit = "bailed")
            /\ (srPc = "returned" /\ srN <= top /\ srN > 1) =>
                  (srOut.x = srHist[1].x /\ srOut.best = srN - 1)
            /\ (srPc = "returned" /\ srN <= top /\ srN = 1) => srOut.x = Initial(1)
            /\ (srPc = "returned" /\ srN > top) =>
                  (srOut.x.order = top /\ srOut.best = top)


\* C25: a pass of the inner loop of EMEP or BDM that produced non-finite
\* values (in the linear system or in its solution) is never accepted as
\* converged: rlx is halved and the solve retried, or the solve is given up.
C25_NonFiniteNeverAccepted ==
    (srPc \in {"solve", "score"} /\ (srStep.sys # "ok" \/ srStep.sol = "nan")) =>
        \/ srStep.halved /\ srStep.exit = "loop"
        \/ srStep.exit = "bailed"


\* C26 as stated: BDM tries the models 1..6 in increasing order; the search
\* stops at the first n > 1 whose ABIC is larger than that of model n - 1
\* and the output then uses the solution accepted for model n - 1; if the
\* criterion never worsens the solution of model 6 is used.
C26_BdmModelSearch ==
    srArgs.method = "BDM" =>
        LET worse == Len(srCrit) = 2 /\ Greater(srCrit[2], srCrit[1])
        IN  /\ srPc \in {"solve", "score"} =>
                  (srN <= 6 /\ (srN > 1 => srHist[1].order = srN - 1))
            /\ (srPc \in {"order", "returned"} /\ worse) => ~srKeep
            /\ (srPc = "returned" /\ worse) =>
                  (srHist # << >> /\ srOut.x = srHist[1].x /\ srOut.x.order = srN)
            /\ (srPc = "returned" /\ ~worse) => srOut.x.order = 6

\* C26 as amended: the same, except that a fully relaxed solve of the last
\* model tried also ends the search, with the solution of the model before
\* it (the uniform initial value when there is none).
C26_BdmModelSearchUnlessRelaxed ==
    srArgs.method = "BDM" =>
        LET worse == Len(srCrit) = 2 /\ Greater(srCrit[2], srCrit[1])
        IN  /\ srPc \in {"solve", "score"} =>
                  (srN <= 6 /\ (srN > 1 => srHist[1].order = srN - 1))
            /\ (srPc \in {"order", "returned"} /\ worse) => ~srKeep
            /\ (srPc = "returned" /\ worse) =>
                  (srHist # << >> /\ srOut.x = srHist[1].x /\ srOut.x.order = srN)
            /\ (srPc = "returned" /\ ~worse /\ srStep.exit # "bailed") =>
                  (srOut.x.order = 6 /\ srN = 7)
            /\ (srPc = "returned" /\ ~worse /\ srStep.exit = "bailed") =>
                  srOut.x = (IF srHist # << >> THEN srHist[1].x ELSE Initial(1))

C26_Witness ==
    /\ srPc = "returned" /\ srArgs.method = "BDM"
    /\ Len(srCrit) = 2 /\ Greater(srCrit[2], srCrit[1])
    /\ srN = 3 /\ ~srOut.x.init /\ srOut.x = srHist[1].x


----------------------------------------------------------------------------
(* The entry of BDM (BDM.py lines 36-49): the test on the phase tensor kx   *)
(* that dirspec.py lines 119-126 built from the layout.  Positions are      *)
(* small integers, the wavenumber is 1, and the directions are the four     *)
(* axis directions of the grid, given by their cosine and sine.             *)

MaxSzd == 3
MaxPos == 1

AxisDirs == <<[c |-> -1, s |-> 0], [c |-> 0, s |-> -1], [c |-> 1, s |-> 0], [c |-> 0, s |-> 1]>>

BdmLayouts ==
    UNION {[1..szd -> [x : 0..MaxPos, y : 0..MaxPos]] : szd \in 1..MaxSzd}

\* dirspec.py lines 124-126: kx[m, n, :, d]
KxEntry(layout, m, n, d) ==
    (layout[n].x - layout[m].x) * AxisDirs[d].c + (layout[n].y - layout[m].y) * AxisDirs[d].s

\* every entry of kx is zero
KxAllZero(layout) ==
    \A m \in 1..Len(layout) : \A n \in 1..Len(layout) : \A d \in 1..Len(AxisDirs) :
        KxEntry(layout, m, n, d) = 0

\* np.sum(kx), in exact arithmetic
KxSum(layout) ==
    SumTo([m \in 1..Len(layout) |->
             SumTo([n \in 1..Len(layout) |->
                      SumTo([d \in 1..Len(AxisDirs) |-> KxEntry(layout, m, n, d)],
                            Len(AxisDirs))],
                   Len(layout))],
          Len(layout))

\* np.sum(kx) == 0 on floats: a sum of zeros is zero; otherwise the rounding
\* of the additions may leave a residue where the exact sum is zero
SumIsZero(layout, residue) ==
    KxAllZero(layout) \/ (KxSum(layout) = 0 /\ ~residue)

BdmWarning == "BDM method may not work with three quantity measurements"

BdmEntryInit ==
    /\ DirspecIdle /\ PostIdle /\ MlmIdle /\ WnIdle /\ TrmIdle /\ SrIdle
    /\ fnPc = "called"
    /\ fnArgs \in [layout : BdmLayouts, residue : BOOLEAN]
    /\ fnOut = << >>

\* BDM.py lines 44-46
BdmCheckKx ==
    /\ fnPc = "called"
    /\ fnOut' = [warned |-> IF SumIsZero(fnArgs.layout, fnArgs.residue)
                            THEN <<BdmWarning>> ELSE << >>,
                 S |-> "none"]
    /\ fnPc' = "estimating"
    /\ UNCHANGED <<fnArgs, NotFn>>

\* BDM.py lines 48-218: the estimation goes on and the spectrum is returned
BdmEstimate ==
    /\ fnPc = "estimating"
    /\ fnOut' = [fnOut EXCEPT !.S = "spectrum"]
    /\ fnPc' = "returned"
    /\ UNCHANGED <<fnArgs, NotFn>>

BdmEntryNext == BdmCheckKx \/ BdmEstimate

SpecBdmEntry == BdmEntryInit /\ [][BdmEntryNext]_vars

\* C27: BDM warns exactly when every entry of kx is zero (all sensors at one
\* horizontal position); with two sensors apart it does not warn; either
\* way the spectrum is returned.
C27_WarnsIffColocated ==
    fnPc = "returned" =>
        /\ fnOut.warned = <<BdmWarning>> <=> KxAllZero(fnArgs.layout)
        /\ (\E m, n \in 1..Len(fnArgs.layout) :
                fnArgs.layout[m] # fnArgs.layout[n]) => fnOut.warned = << >>
        /\ fnOut.S = "spectrum"


----------------------------------------------------------------------------
(* The process-wide warnings filter across calls of the five estimation     *)
(* methods.  warnings.filters is a list read from the front; simplefilter   *)
(* puts its entry in front, removing an equal entry further down.           *)

MaxCalls == 2

\* warnings.simplefilter(action)
simplefilter(filters, action) ==
    <<action>> \o SelectSeq(filters, LAMBDA f : f # action)

\* the methods that end with warnings.simplefilter('default'):
\* DFTM.py line 64, EMLM.py line 65, IMLM.py line 78, BDM.py line 216
ResetsFilter == {"DFTM", "EMLM", "IMLM", "BDM"}

\* one call that returns normally: 'ignore' on entry if displ < 2, and
\* 'default' before the return in the methods that have that line
MethodCall(method, displ, filters) ==
    LET entered == IF displ < 2 THEN simplefilter(filters, "ignore") ELSE filters
    IN  IF method \in ResetsFilter THEN simplefilter(entered, "default") ELSE entered

\* the action the filter list gives a warning: that of its first entry
FilterAction(filters) == IF filters = << >> THEN "default" ELSE filters[1]

FilterInit ==
    /\ DirspecIdle /\ PostIdle /\ MlmIdle /\ WnIdle /\ TrmIdle /\ SrIdle
    /\ fnPc = "ready"
    /\ fnArgs = << >>
    /\ fnOut \in {<< >>, <<"always">>}

\* what a call of a method with a verbosity leaves behind
Returns(method, displ) ==
    /\ fnArgs' = Append(fnArgs, [method |-> method, displ |-> displ])
    /\ fnOut' = MethodCall(method, displ, fnOut)

\* pydiwasp/private/DFTM.py lines 40-41 and 64
DFTM ==
    /\ fnPc = "ready" /\ Len(fnArgs) < MaxCalls
    /\ \E displ \in 0..2 : Returns("DFTM", displ)
    /\ UNCHANGED <<fnPc, NotFn>>

\* EMLM.py lines 41-42 and 65
EMLM ==
    /\ fnPc = "ready" /\ Len(fnArgs) < MaxCalls
    /\ \E displ \in 0..2 : Returns("EMLM", displ)
    /\ UNCHANGED <<fnPc, NotFn>>

\* IMLM.py lines 17-18 and 78
IMLM ==
    /\ fnPc = "ready" /\ Len(fnArgs) < MaxCalls
    /\ \E displ \in 0..2 : Returns("IMLM", displ)
    /\ UNCHANGED <<fnPc, NotFn>>

\* EMEP.py lines 31-32; no line before the return (line 193) touches the filter
EMEP ==
    /\ fnPc = "ready" /\ Len(fnArgs) < MaxCalls
    /\ \E displ \in 0..2 : Returns("EMEP", displ)
    /\ UNCHANGED <<fnPc, NotFn>>

\* BDM.py lines 48-49 and 216
BDM ==
    /\ fnPc = "ready" /\ Len(fnArgs) < MaxCalls
    /\ \E displ \in 0..2 : Returns("BDM", displ)
    /\ UNCHANGED <<fnPc, NotFn>>

FilterNext == DFTM \/ EMLM \/ IMLM \/ EMEP \/ BDM

SpecFilter == FilterInit /\ [][FilterNext]_vars

\* C28: after any sequence of calls of the five methods that returned, the
\* warnings filter is not left at 'ignore'.
C28_FilterNotLeftIgnoring ==
    fnPc = "ready" => FilterAction(fnOut) # "ignore"


----------------------------------------------------------------------------
(* The objects of one dirspec call (dirspec.py lines 64-172): which object  *)
(* each name is bound to, what the call writes into the caller's            *)
(* dictionaries, and which objects it creates.  A dictionary is known by    *)
(* its keys, an array by what was last written into it.                     *)

\* the dictionaries a name can be bound to: the caller's three, and a copy
ObjectIds == {"ID", "SM", "EP", "copy"}

\* the new list of 'DDS = []' (check_data.py lines 67, 110, 162, 168)
EmptyListObject == "[]"

\* a variant of CheckDataReturns that works on a copy of the structure
CheckDataCopies(obj, valid) == IF valid THEN "copy" ELSE EmptyListObject

\* check_data.py line 170: return DDS, the object that was passed in unless
\* the structure was rejected
CheckDataReturns(obj, valid) == IF valid THEN obj ELSE EmptyListObject

\* check_data.py lines 98-105 and 121-157: the keys that get a default
SMDefaults == {"xaxisdir", "dunit", "funit"}
EPDefaults == {"dres", "nfft", "iter", "smooth", "method"}

\* scipy.signal.detrend(ID['data'], axis=0): overwrite_data is False, the
\* result is a new array
DetrendReturns(arr) == "detrended"

\* interpspec.py lines 45-48 (pydiwasp/interpspec.py lines 133-141):
\* SMout['S'] = Stmp / facout; return SMout
InterpspecReturns(SMin, SMout) == SMout

\* smoothspec.py lines 19-29: S['S'][2:nf - 2, 2:nd - 2] = ...; return S
SmoothspecReturns(obj) == obj

ObjInputs ==
    [idOk : BOOLEAN, smOk : BOOLEAN, epOk : BOOLEAN,
     smKeys : SUBSET SMDefaults,
     nfft : {0, 512}, smooth : {"absent", "ON", "OFF"},
     short : BOOLEAN]

ObjInit ==
    /\ DirspecIdle /\ PostIdle /\ MlmIdle /\ WnIdle /\ TrmIdle /\ SrIdle
    /\ fnPc = "check_ID"
    /\ fnArgs \in ObjInputs
    /\ fnOut = [names |-> [ID |-> "ID", SM |-> "SM", EP |-> "EP",
                           data |-> "unbound", SMout |-> "unbound"],
                heap  |-> [o \in ObjectIds |->
                             CASE o = "SM" -> [keys |-> {"freqs", "dirs"} \cup fnArgs.smKeys,
                                               S |-> "none", nfft |-> 0]
                               [] o = "EP" -> [keys |-> (IF fnArgs.nfft # 0 THEN {"nfft"} ELSE {})
                                                 \cup (IF fnArgs.smooth # "absent"
                                                       THEN {"smooth"} ELSE {}),
                                               S |-> "none", nfft |-> fnArgs.nfft]
                               [] OTHER -> [keys |-> {"data"}, S |-> "none", nfft |-> 0]],
                data  |-> "raw",
                made  |-> {},
                ret   |-> << >>]

\* dirspec.py lines 66, 69, 72: return [], []
ReturnEmpty(o) ==
    [o EXCEPT !.ret = <<"[] 1", "[] 2">>, !.made = @ \cup {"[] 1", "[] 2"}]

\* dirspec.py lines 64-66
ObjCheckID ==
    /\ fnPc = "check_ID"
    /\ LET r == CheckDataReturns(fnOut.names.ID, fnArgs.idOk)
           o == [fnOut EXCEPT !.names.ID = r]
       IN  IF r = EmptyListObject
           THEN fnOut' = ReturnEmpty(o) /\ fnPc' = "returned"
           ELSE fnOut' = o /\ fnPc' = "check_SM"
    /\ UNCHANGED <<fnArgs, NotFn>>

\* dirspec.py lines 67-69, check_data.py lines 95-105
ObjCheckSM ==
    /\ fnPc = "check_SM"
    /\ LET r == CheckDataReturns(fnOut.names.SM, fnArgs.smOk)
           o == [fnOut EXCEPT !.names.SM = r]
       IN  IF r = EmptyListObject
           THEN fnOut' = ReturnEmpty(o) /\ fnPc' = "returned"
           ELSE /\ fnOut' = [o EXCEPT !.heap[r].keys = @ \cup SMDefaults]
                /\ fnPc' = "check_EP"
    /\ UNCHANGED <<fnArgs, NotFn>>

\* dirspec.py lines 70-72, check_data.py lines 116-157
ObjCheckEP ==
    /\ fnPc = "check_EP"
    /\ LET r == CheckDataReturns(fnOut.names.EP, fnArgs.epOk)
           o == [fnOut EXCEPT !.names.EP = r]
       IN  IF r = EmptyListObject
           THEN fnOut' = ReturnEmpty(o) /\ fnPc' = "returned"
           ELSE /\ fnOut' = [o EXCEPT !.heap[r].keys = @ \cup EPDefaults]
                /\ fnPc' = "detrend"
    /\ UNCHANGED <<fnArgs, NotFn>>

\* dirspec.py line 90
ObjDetrend ==
    /\ fnPc = "detrend"
    /\ fnOut' = [fnOut EXCEPT !.names.data = DetrendReturns("data"),
                              !.made = @ \cup {DetrendReturns("data")}]
    /\ fnPc' = "nfft"
    /\ UNCHANGED <<fnArgs, NotFn>>

\* dirspec.py lines 93-100
ObjResolveNfft ==
    /\ fnPc = "nfft"
    /\ fnOut' = IF fnOut.heap[fnOut.names.EP].nfft = 0
                THEN [fnOut EXCEPT !.heap[fnOut.names.EP].nfft = 512]
                ELSE fnOut
    /\ fnPc' = IF fnArgs.short THEN "raised" ELSE "estimate"
    /\ UNCHANGED <<fnArgs, NotFn>>

\* dirspec.py lines 102-145: everything up to the estimate works on new
\* arrays and on the new dictionary SM1
ObjEstimate ==
    /\ fnPc = "estimate"
    /\ fnOut' = [fnOut EXCEPT !.made = @ \cup {"xps", "trm", "kx", "Ss", "SM1", "SM1['S']"}]
    /\ fnPc' = "interpolate"
    /\ UNCHANGED <<fnArgs, NotFn>>

\* dirspec.py line 149: spectobasis (spectobasis.py line 7) works on deep
\* copies; the result is written into the dictionary passed as SMout
ObjInterpolate ==
    /\ fnPc = "interpolate"
    /\ LET out == InterpspecReturns("SM1", fnOut.names.SM)
       IN  fnOut' = [fnOut EXCEPT !.names.SMout = out,
                                  !.heap[fnOut.names.SM].keys = @ \cup {"S"},
                                  !.heap[fnOut.names.SM].S = "Stmp / facout",
                                  !.made = @ \cup {"SMin", "SMtmp", "Stmp / facout"}]
    /\ fnPc' = "smooth"
    /\ UNCHANGED <<fnArgs, NotFn>>

\* dirspec.py lines 152-154
ObjSmooth ==
    /\ fnPc = "smooth"
    /\ fnOut' = IF fnArgs.smooth \in {"absent", "ON"}
                THEN [fnOut EXCEPT !.names.SMout = SmoothspecReturns(fnOut.names.SMout),
                                   !.heap[fnOut.names.SMout].S = "smoothed"]
                ELSE fnOut
    /\ fnPc' = "finish"
    /\ UNCHANGED <<fnArgs, NotFn>>

\* dirspec.py line 172: return SMout, EP
ObjReturn ==
    /\ fnPc = "finish"
    /\ fnOut' = [fnOut EXCEPT !.ret = <<fnOut.names.SMout, fnOut.names.EP>>]
    /\ fnPc' = "returned"
    /\ UNCHANGED <<fnArgs, NotFn>>

ObjNext ==
    \/ ObjCheckID
    \/ ObjCheckSM
    \/ ObjCheckEP
    \/ ObjDetrend
    \/ ObjResolveNfft
    \/ ObjEstimate
    \/ ObjInterpolate
    \/ ObjSmooth
    \/ ObjReturn

SpecObjects == ObjInit /\ [][ObjNext]_vars

\* C30: a dirspec call that returns a spectrum returns the caller's own SM
\* (with the defaults and the resulting 'S' written into it) and the
\* caller's own EP (with the defaults and the resolved nfft); neither is an
\* object the call made, and the array ID['data'] is as the caller left it.
C30_ReturnsCallersObjects ==
    (fnPc = "returned" /\ fnOut.ret[1] \in ObjectIds) =>
        /\ fnOut.ret = <<"SM", "EP">>
        /\ fnOut.ret[1] \notin fnOut.made /\ fnOut.ret[2] \notin fnOut.made
        /\ SMDefaults \cup {"S"} \subseteq fnOut.heap["SM"].keys
        /\ fnOut.heap["SM"].S \in {"Stmp / facout", "smoothed"}
        /\ EPDefaults \subseteq fnOut.heap["EP"].keys
        /\ fnOut.heap["EP"].nfft = 512
        /\ fnOut.data = "raw" /\ fnOut.names.data # "data"
        /\ fnOut.heap["copy"].S = "none"

C30_Witness ==
    /\ fnPc = "returned" /\ fnOut.ret = <<"SM", "EP">>
    /\ fnArgs.smKeys = {} /\ fnArgs.nfft = 0 /\ fnArgs.smooth = "ON"
    /\ fnOut.heap["SM"].S = "smoothed"
    /\ fnOut.heap["EP"].nfft = 512


====
